---- MODULE Spec2Model ----
(***************************************************************************)
(* Coordination broker for multi-agent workspaces: the fast-store (Redis)  *)
(* lock protocol of RedisWorkspaceOrchestrator, and the bridge             *)
(* (WorkspaceInfrastructureBridge) with its fallback lock manager and its  *)
(* health / reconnect supervisor.                                          *)
(*                                                                         *)
(* Strings that the code builds with ':' and takes apart with split(':')   *)
(* or a regular expression are sequences of colon-free segments, so that   *)
(* "a:b" is <<"a","b">>, concatenation with ':' is \o, and split(':') is   *)
(* the sequence itself.                                                    *)
(***************************************************************************)
EXTENDS Integers, Sequences, FiniteSets, Bags, TLC

(***************************************************************************)
(* Bounds of the model.                                                    *)
(***************************************************************************)
\* orchestrator calls started in one behaviour of the lock protocol
MaxCalls == 4

(***************************************************************************)
(* Inputs.                                                                 *)
(***************************************************************************)
Agents == {"a1", "a2", "a3"}

\* the agents that call concurrently in the lock protocol
Callers == {"a1", "a2"}

LockTypes == {"read", "write", "exclusive"}

\* (workspace_id, file_path) pairs.  The second one is the pair whose waiters
\* queue has the name that processLockQueue computes for the first one.
File1 == [ws |-> "ws1", path |-> <<"f">>]

File2 == [ws |-> "locks", path |-> <<"ws1", "f">>]

Files == {File1, File2}

\* the requests the callers make: every lock type on the first pair, and
\* write requests on the second, which fill its waiters queue
RequestInputs ==
  { [file |-> File1, lockType |-> t] : t \in LockTypes }
    \cup { [file |-> File2, lockType |-> "write"] }

(***************************************************************************)
(* Key names (WORKSPACE_STREAM_PATTERNS) and lock ids.                     *)
(***************************************************************************)
ACTIVE_LOCKS == <<"autogen", "state", "locks">>

EDIT_QUEUE == <<"autogen", "state", "edit_queue">>

\* `${ACTIVE_LOCKS}:${workspaceId}:${filePath}`
LockKey(ws, path) == ACTIVE_LOCKS \o <<ws>> \o path

\* `${EDIT_QUEUE}:${workspaceId}:${filePath}` as queueLockRequest builds it
QueueKey(ws, path) == EDIT_QUEUE \o <<ws>> \o path

\* `${lockKey}:readers:${agentId}`
ReaderLockId(lockKey, agent) == lockKey \o <<"readers", agent>>

\* lockId.includes(':readers:')
IsReaderForm(lockId) ==
  \E i \in 2..(Len(lockId) - 1) : lockId[i] = "readers"

\* lockId.replace(/:readers:.*$/, '')  (leftmost match)
BaseKey(lockId) ==
  IF IsReaderForm(lockId)
    THEN LET i == CHOOSE j \in 2..(Len(lockId) - 1) :
                    /\ lockId[j] = "readers"
                    /\ \A k \in 2..(j - 1) : lockId[k] # "readers"
         IN SubSeq(lockId, 1, i - 1)
    ELSE lockId

\* the queue key processLockQueue derives from a lock key:
\* parts = lockKey.split(':'); workspaceId = parts[2];
\* filePath = parts.slice(3).join(':')     (0-based indices in the code)
ProcessQueueKey(lockKey) ==
  IF Len(lockKey) < 4
    THEN <<>>
    ELSE EDIT_QUEUE \o <<lockKey[3]>> \o SubSeq(lockKey, 4, Len(lockKey))

LockKeys == { LockKey(f.ws, f.path) : f \in Files }

QueueKeys ==
  { QueueKey(f.ws, f.path) : f \in Files }
    \cup { ProcessQueueKey(k) : k \in LockKeys }

LockIds == LockKeys \cup { ReaderLockId(k, a) : k \in LockKeys, a \in Agents }

\* the lock ids a caller passes to release: the exclusive form of the first
\* pair's key and the reader form that names the caller
LockIdsOf(a) ==
  LET k == LockKey(File1.ws, File1.path) IN {k, ReaderLockId(k, a)}

\* the (workspace, path) pair a lock key was built from
FileOf(lockKey) == CHOOSE f \in Files : LockKey(f.ws, f.path) = lockKey

(***************************************************************************)
(* Values.                                                                 *)
(***************************************************************************)
\* redis.get() of a key that does not exist
NoLock == [agentId |-> "", lockType |-> "none", workspaceId |-> "", filePath |-> <<>>]

\* lockValue of requestFileLock (the timestamp is not modelled: expiry is
\* the action Expire)
LockValue(agent, lockType, ws, path) ==
  [agentId |-> agent, lockType |-> lockType, workspaceId |-> ws, filePath |-> path]

\* the entry queueLockRequest pushes
QueueEntry(agent, lockType, ws, path) ==
  [agentId |-> agent, lockType |-> lockType, workspaceId |-> ws, filePath |-> path]

\* the envelope publishLockEvent adds to the locks stream
LockEvent(eventType, agent, ws, path, lockType) ==
  [eventType |-> eventType, agentId |-> agent, workspaceId |-> ws,
   filePath |-> path, lockType |-> lockType]

\* a null lock id
Null == <<>>


(***************************************************************************)
(* State.                                                                  *)
(***************************************************************************)
VARIABLES
  kv,      \* fast store: lock key -> lock record (NoLock when the key is absent)
  sets,    \* fast store: lock key -> members of the set `${lockKey}:readers`
  lists,   \* fast store: queue key -> waiters list, head first (lpush adds at the head)
  call,    \* per calling agent: the orchestrator call in progress and its locals
  last,    \* history: the orchestrator call that returned most recently
  held,    \* history: lock ids handed out and neither released nor expired
  ncalls,  \* history: number of orchestrator calls started
  scen,    \* history of the reader-sharing scenario: who has asked, who has
           \* begun to release, and whether a lock record has expired
  sup,     \* bridge: health status, reconnect bookkeeping, pending timers and
           \* connect calls, the orchestrators' connection state, events emitted
  redisUp, \* environment: the fast store is reachable
  kafkaUp, \* environment: the durable store is reachable
  fallbackStorage, \* bridge: the in-process fallback lock map
  bheld,   \* history: lock ids the bridge handed out, not released / expired
  blast,   \* history: the bridge lock call that returned most recently
  nbcalls, \* history: number of bridge lock calls
  faults,  \* history: number of injected backend faults
  inits    \* history: number of initialize() calls

redisVars == <<kv, sets, lists>>

lockVars == <<kv, sets, lists, call, last, held, ncalls, scen>>

callVars == <<call, last, held, ncalls, scen>>

bridgeVars == <<sup, redisUp, kafkaUp, fallbackStorage, bheld, blast, nbcalls, faults, inits>>

vars == <<kv, sets, lists, call, last, held, ncalls, scen,
          sup, redisUp, kafkaUp, fallbackStorage, bheld, blast, nbcalls, faults, inits>>

\* a caller that is not inside a call.  The fields from `result' on are what the
\* call hands back or emits; those from `holder' on are history of the call:
\* whether the caller held a lock on the key at entry (`rdHolder': a read
\* lock it still holds at the current command), whether some agent has
\* held a read lock on the key from entry on, the key's waiters list at entry,
\* and whether a command of the call changed the key's record / readers set.
IdleCall ==
  [agent |-> "", op |-> "idle", pc |-> "idle", key |-> <<>>, ws |-> "", path |-> <<>>,
   lockType |-> "none", lockId |-> Null, lock |-> NoLock, removed |-> FALSE,
   result |-> Null, released |-> FALSE,
   pub |-> <<>>, retried |-> <<>>, queued |-> 0,
   holder |-> FALSE, rdHolder |-> FALSE, rdHeld |-> FALSE, waiting |-> <<>>,
   touchedKv |-> FALSE, touchedSet |-> FALSE]

\* the holds of the agents on a key
HoldsOn(h, key) == { x \in h : x.key = key }

ReadHeldOn(h, key) == \E x \in h : x.key = key /\ x.kind = "read"

\* history bookkeeping of the calls in progress when the set of holds changes
Observe(c, h) ==
  [a \in Agents |->
     IF c[a].op = "idle"
       THEN c[a]
       ELSE [c[a] EXCEPT !.rdHeld = @ /\ ReadHeldOn(h, c[a].key),
                         !.rdHolder = @ /\ (\E x \in h : /\ x.key = c[a].key
                                                          /\ x.agent = a
                                                          /\ x.kind = "read")]]

\* the record of a call of agent a at its return
Returned(c, a) == [c EXCEPT !.agent = a, !.pc = "done", !.lock = NoLock, !.removed = FALSE]

(***************************************************************************)
(* WorkspaceInfrastructureBridge: the state its constructor leaves.        *)
(***************************************************************************)
Services == {"redis", "kafka"}

\* config.reconnectAttempts of the configuration the tests build
ReconnectAttempts == 3

\* the key fallbackFileLock builds: `${workspaceId}:${filePath}`
FallbackKey(ws, path) == <<ws>> \o path

\* the files the bridge is asked to lock
BridgeFiles == {File1}

FallbackKeys == { FallbackKey(f.ws, f.path) : f \in BridgeFiles }

\* fallbackStorage.get() of a key that is not in the map
NoFallbackLock == [agentId |-> "", lockType |-> "none", hasReaders |-> FALSE, readers |-> <<>>]

\* no bridge call has returned yet.  `raised' tells whether the call threw to
\* its caller instead of returning; `events' are the names of the events the
\* bridge emitted during the call; `entry' is what the call found: the
\* connected flags, whether commands of the fast store and sends to the durable
\* store work, the lengths of the edits stream and the edit history topic,
\* whether the durable-store orchestrator is connected, and the services with
\* a reconnect timer or a connect() pending; `after' is what the call left:
\* the health status and the entries it appended to the edits stream.
\* For a call of the fast-store orchestrator's registry operations,
\* `agentInfo' and `now' are its input and the time of the call, and
\* `registered' tells whether a registerAgent of the agent had returned before.
\* For a message handled by the durable-store consumer, `value' is the value of
\* the message and `emitted' the events the orchestrator emitted for it.
\* For a call of the consensus helper, `votes' is the vote map and
\* `consensus' the result it returned.
NoBridgeCall ==
  [op |-> "none", agent |-> "", lockType |-> "none", lockId |-> Null,
   viaRedis |-> FALSE, redisResult |-> Null, redisReleased |-> FALSE,
   kafkaFailed |-> FALSE, usedFallback |-> FALSE, readHeld |-> FALSE,
   result |-> Null, released |-> FALSE, redisConnectedAfter |-> FALSE,
   raised |-> FALSE, events |-> <<>>,
   editData |-> [operation |-> "", content |-> ""],
   agentInfo |-> [name |-> "", model |-> "", capabilities |-> <<>>, workspaceId |-> ""],
   now |-> 0, registered |-> FALSE,
   value |-> [present |-> FALSE, text |-> ""], emitted |-> <<>>,
   votes |-> [a \in {} |-> ""],
   stream |-> "", batch |-> <<>>, firstId |-> 0,
   consensus |-> [result |-> "", confidence |-> [num |-> 0, den |-> 1]],
   entry |-> [connected |-> [s \in Services |-> FALSE],
              commandsWork |-> FALSE, sendWorks |-> FALSE,
              edits |-> 0, editHistory |-> 0,
              kafkaIsConnected |-> FALSE, reconnecting |-> {}],
   after |-> [connected |-> [s \in Services |-> FALSE], overall |-> "offline",
              appended |-> <<>>]]

\* the hash at a key of the fast store that does not exist, and hset: the
\* fields given are written over the hash, the other fields stay
NoHash == [f \in {} |-> ""]

hset_KeepsOld(hash, fields) ==
  [f \in DOMAIN hash \cup DOMAIN fields |-> IF f \in DOMAIN hash THEN hash[f] ELSE fields[f]]

hset(hash, fields) ==
  [f \in DOMAIN hash \cup DOMAIN fields |-> IF f \in DOMAIN fields THEN fields[f] ELSE hash[f]]

\* the streams of the fast store and the topics of the durable store that the
\* bridge's operations write
FILE_EDITS == "autogen:edits"

AGENT_STATUS == "autogen:agents"

CONSENSUS_VOTES == "autogen:consensus"

Streams == {FILE_EDITS, AGENT_STATUS, CONSENSUS_VOTES}

FILE_LOCKS == "autogen:locks"

\* the streams startStreamConsumers polls
ConsumedStreams == {FILE_LOCKS, FILE_EDITS, AGENT_STATUS, CONSENSUS_VOTES}

EDIT_HISTORY == "autogen-edit-history"

WORKSPACE_SNAPSHOTS == "autogen-workspace-snapshots"

CONSENSUS_DECISIONS == "autogen-consensus-decisions"

AGENT_COORDINATION == "autogen-agent-coordination"

CONFLICT_RESOLUTION == "autogen-conflict-resolution"

SESSION_MANAGEMENT == "autogen-session-management"

Topics == {EDIT_HISTORY, WORKSPACE_SNAPSHOTS, CONSENSUS_DECISIONS, AGENT_COORDINATION,
           CONFLICT_RESOLUTION, SESSION_MANAGEMENT}

\* healthStatus, reconnectAttempts and reconnectInProgress as the constructor
\* sets them; no timer is pending and no connect() is in flight; the fast
\* store client is lazy (status "wait") and the durable store client is not
\* connected.  `events' is what the last step emitted, each event with the
\* health status a listener reads at that moment; `connectCalls' counts the
\* connect() invocations of reconnect timers since the attempt counter of the
\* service was last reset; `gaveUp' tells whether reconnect_failed has been
\* emitted for the service since then; `config' is the reconnectAttempts of
\* the configuration the bridge was built with; `settled' holds the services
\* for which the connect() of a reconnect timer resolved in the last step.
\* `streams' and `registry' are the fast store's streams and the hashes at the
\* agent registry keys of the agents,
\* `topics' the durable store's topics, and `sequenceNumber' the counter of the
\* durable-store orchestrator; `sends' are the producer.send calls that have
\* not settled, and `handed' lists the messages in the order in which they
\* were handed to the producer; `subscriptions' counts the times the
\* durable-store consumer has subscribed to the topics and started its run loop.
BridgeConstructed ==
  [connected |-> [s \in Services |-> FALSE],
   overall |-> "offline",
   errorCount |-> [s \in Services |-> 0],
   reconnectAttempts |-> [s \in Services |-> 0],
   reconnectInProgress |-> {},
   timers |-> EmptyBag,
   connects |-> EmptyBag,
   redisStatus |-> "wait",
   kafkaIsConnected |-> FALSE,
   initializing |-> "no",
   events |-> <<>>,
   connectCalls |-> [s \in Services |-> 0],
   gaveUp |-> [s \in Services |-> FALSE],
   settled |-> {},
   streams |-> [n \in Streams |-> <<>>],
   registry |-> [a \in Agents |-> NoHash],
   topics |-> [n \in Topics |-> <<>>],
   sequenceNumber |-> 0,
   sends |-> {},
   handed |-> <<>>,
   subscriptions |-> 0,
   shutdown |-> "no",
   delivered |-> 0,
   pending |-> {},
   redisIsConnected |-> FALSE,
   heartbeats |-> 0,
   heartbeatInterval |-> "none",
   pollLoops |-> [n \in ConsumedStreams |-> 0],
   streamConsumers |-> {},
   config |-> [reconnectAttempts |-> ReconnectAttempts]]

InitBridgeState ==
  /\ sup = BridgeConstructed
  /\ fallbackStorage = [k \in FallbackKeys |-> NoFallbackLock]
  /\ bheld = {}
  /\ blast = NoBridgeCall
  /\ nbcalls = 0
  /\ faults = 0
  /\ inits = 0

InitStore ==
  /\ kv = [k \in LockKeys |-> NoLock]
  /\ sets = [k \in LockKeys |-> {}]
  /\ lists = [q \in QueueKeys |-> <<>>]
  /\ call = [a \in Agents |-> IdleCall]
  /\ last = IdleCall
  /\ held = {}
  /\ ncalls = 0
  /\ scen = [asked |-> {}, releasing |-> {}, expired |-> FALSE]

InitLocks ==
  /\ InitStore
  /\ InitBridgeState
  /\ redisUp = TRUE
  /\ kafkaUp = TRUE

\* a caller makes one call at a time
Idle(a) == call[a].op = "idle"

CanStart(a) == Idle(a) /\ ncalls < MaxCalls

\* the holds after a call has returned a lock id
Granted(h, a, key, kind, lockId) ==
  h \cup {[agent |-> a, key |-> key, kind |-> kind, lockId |-> lockId]}

(***************************************************************************)
(* RedisWorkspaceOrchestrator.requestFileLock, one step per command on the *)
(* lock state.  The call's local steps and its publishLockEvent (an XADD   *)
(* on the locks stream, which no lock command reads) are taken together    *)
(* with the command before them.                                           *)
(***************************************************************************)
\* entry, and existingLock = await redis.get(lockKey) with the branch taken on it
RequestEntry(a, f, t) ==
  /\ Idle(a)
  /\ LET key == LockKey(f.ws, f.path)
         existing == kv[key]
         next == IF existing # NoLock
                   THEN IF t = "read" /\ existing.lockType = "read"
                          THEN "sadd_join" ELSE "queue"
                   ELSE IF t = "read" THEN "sadd_new" ELSE "setnx"
     IN call' = [call EXCEPT ![a] =
                   [IdleCall EXCEPT !.op = "request", !.pc = next, !.key = key,
                                    !.ws = f.ws, !.path = f.path, !.lockType = t,
                                    !.lock = existing,
                                    !.holder = (\E x \in held : x.key = key /\ x.agent = a),
                                    !.rdHolder = (\E x \in held : /\ x.key = key
                                                                  /\ x.agent = a
                                                                  /\ x.kind = "read"),
                                    !.rdHeld = ReadHeldOn(held, key)]]
  /\ ncalls' = ncalls + 1
  /\ UNCHANGED bridgeVars /\ UNCHANGED <<kv, sets, lists, last, held>>

ReqGet(a, f, t) == CanStart(a) /\ RequestEntry(a, f, t) /\ UNCHANGED scen

\* readLocks = await redis.sadd(`${lockKey}:readers`, agentId): 1 when added, and
\* then lock_acquired is published and the reader lock id returned; 0 when the
\* agent was a member already, and then the code falls through to the queue
ReqSaddJoin(a) ==
  /\ call[a].op = "request" /\ call[a].pc = "sadd_join"
  /\ LET c == call[a]
         key == c.key
         readLocks == IF a \in sets[key] THEN 0 ELSE 1
         e == LockEvent("lock_acquired", a, c.ws, c.path, c.lockType)
         h == IF readLocks # 0
                THEN Granted(held, a, key, c.lockType, ReaderLockId(key, a))
                ELSE held
     IN /\ sets' = [sets EXCEPT ![key] = @ \cup {a}]
        /\ held' = h
        /\ call' = IF readLocks # 0
                     THEN Observe([call EXCEPT ![a] = IdleCall], h)
                     ELSE [call EXCEPT ![a].pc = "queue"]
        /\ last' = IF readLocks # 0
                     THEN Returned([c EXCEPT !.result = ReaderLockId(key, a),
                                             !.pub = Append(@, e),
                                             !.touchedSet = TRUE], a)
                     ELSE last
  /\ UNCHANGED bridgeVars /\ UNCHANGED <<kv, lists, ncalls, scen>>

\* await queueLockRequest(...) (an LPUSH); return null
ReqQueue(a) ==
  /\ call[a].op = "request" /\ call[a].pc = "queue"
  /\ LET c == call[a]
         q == QueueKey(c.ws, c.path)
         e == QueueEntry(a, c.lockType, c.ws, c.path)
     IN /\ lists' = [lists EXCEPT ![q] = <<e>> \o @]
        /\ last' = Returned([c EXCEPT !.result = Null, !.queued = @ + 1], a)
  /\ call' = [call EXCEPT ![a] = IdleCall]
  /\ UNCHANGED bridgeVars /\ UNCHANGED <<kv, sets, held, ncalls, scen>>

\* new read lock: await redis.sadd(`${lockKey}:readers`, agentId)
ReqSaddNew(a) ==
  /\ call[a].op = "request" /\ call[a].pc = "sadd_new"
  /\ LET key == call[a].key
     IN /\ sets' = [sets EXCEPT ![key] = @ \cup {a}]
        /\ call' = [call EXCEPT ![a].pc = "set_read",
                                ![a].touchedSet = @ \/ (a \notin sets[key])]
  /\ UNCHANGED bridgeVars /\ UNCHANGED <<kv, lists, last, held, ncalls, scen>>

\* new read lock: await redis.set(lockKey, lockValue, 'PX', lockTimeoutMs) (no NX),
\* then lock_acquired is published and the reader lock id returned
ReqSetRead(a) ==
  /\ call[a].op = "request" /\ call[a].pc = "set_read"
  /\ LET c == call[a]
         key == c.key
         v == LockValue(a, c.lockType, c.ws, c.path)
         e == LockEvent("lock_acquired", a, c.ws, c.path, c.lockType)
         h == Granted(held, a, key, c.lockType, ReaderLockId(key, a))
     IN /\ kv' = [kv EXCEPT ![key] = v]
        /\ held' = h
        /\ call' = Observe([call EXCEPT ![a] = IdleCall], h)
        /\ last' = Returned([c EXCEPT !.result = ReaderLockId(key, a),
                                      !.pub = Append(@, e),
                                      !.touchedKv = @ \/ (kv[key] # v)], a)
  /\ UNCHANGED bridgeVars /\ UNCHANGED <<sets, lists, ncalls, scen>>

\* write / exclusive: redis.set(lockKey, lockValue, 'PX', lockTimeoutMs, 'NX');
\* on 'OK' lock_acquired is published and the lock key returned, otherwise the
\* call returns null at once
ReqSetNX(a) ==
  /\ call[a].op = "request" /\ call[a].pc = "setnx"
  /\ LET c == call[a]
         key == c.key
         acquired == (kv[key] = NoLock)
         v == LockValue(a, c.lockType, c.ws, c.path)
         e == LockEvent("lock_acquired", a, c.ws, c.path, c.lockType)
         h == IF acquired THEN Granted(held, a, key, c.lockType, key) ELSE held
     IN /\ kv' = IF acquired THEN [kv EXCEPT ![key] = v] ELSE kv
        /\ held' = h
        /\ call' = Observe([call EXCEPT ![a] = IdleCall], h)
        /\ last' = IF acquired
                     THEN Returned([c EXCEPT !.result = key, !.pub = Append(@, e),
                                             !.touchedKv = TRUE], a)
                     ELSE Returned([c EXCEPT !.result = Null], a)
  /\ UNCHANGED bridgeVars /\ UNCHANGED <<sets, lists, ncalls, scen>>

(***************************************************************************)
(* RedisWorkspaceOrchestrator.releaseFileLock, one step per command on the *)
(* lock state.                                                             *)
(***************************************************************************)
\* the holds a release gives up, from the command on that removes the caller
\* from the readers or finds the caller to be the owner of the record: the
\* caller's read hold for a reader lock id, every hold of the caller on the
\* key otherwise
Released(h, a, lockId) ==
  { x \in h : /\ x.agent = a
              /\ x.key = BaseKey(lockId)
              /\ (IsReaderForm(lockId) => x.kind = "read") }

\* the call record at the entry of releaseFileLock
ReleaseEntry(a, lockId) ==
  LET key == BaseKey(lockId)
      f == FileOf(key)
  IN [IdleCall EXCEPT !.op = "release", !.key = key, !.lockId = lockId,
                      !.holder = (\E x \in held : x.key = key /\ x.agent = a),
                      !.rdHeld = ReadHeldOn(held, key),
                      !.waiting = lists[QueueKey(f.ws, f.path)]]

\* reader lock id: removed = await redis.srem(`${baseKey}:readers`, agentId)
ReaderReleaseEntry(a, lockId) ==
  /\ Idle(a)
  /\ IsReaderForm(lockId)
  /\ LET key == BaseKey(lockId)
         removed == a \in sets[key]
         h == IF removed THEN held \ Released(held, a, lockId) ELSE held
     IN /\ sets' = [sets EXCEPT ![key] = @ \ {a}]
        /\ held' = h
        /\ call' = Observe([call EXCEPT ![a] =
                               [ReleaseEntry(a, lockId) EXCEPT !.pc = "scard",
                                                               !.removed = removed,
                                                               !.touchedSet = removed]], h)
  /\ ncalls' = ncalls + 1
  /\ UNCHANGED bridgeVars /\ UNCHANGED <<kv, lists, last>>

RelSrem(a, lockId) == CanStart(a) /\ ReaderReleaseEntry(a, lockId) /\ UNCHANGED scen

\* remainingReaders = await redis.scard(`${baseKey}:readers`); with readers left,
\* lock_released is published when the caller was removed, and false returned
\* when it was not
RelScard(a) ==
  /\ call[a].op = "release" /\ call[a].pc = "scard"
  /\ LET c == call[a]
         remainingReaders == Cardinality(sets[c.key])
         e == LockEvent("lock_released", a, "", <<>>, "read")
         returns == remainingReaders # 0 /\ ~c.removed
     IN /\ call' = IF returns
                     THEN [call EXCEPT ![a] = IdleCall]
                     ELSE [call EXCEPT ![a].pc = IF remainingReaders = 0
                                                   THEN "del_readers" ELSE "pop",
                                       ![a].pub = IF remainingReaders # 0
                                                    THEN Append(@, e) ELSE @]
        /\ last' = IF returns THEN Returned([c EXCEPT !.released = FALSE], a) ELSE last
  /\ UNCHANGED bridgeVars /\ UNCHANGED <<kv, sets, lists, held, ncalls, scen>>

\* await redis.del(`${baseKey}:readers`)
RelDelReaders(a) ==
  /\ call[a].op = "release" /\ call[a].pc = "del_readers"
  /\ LET key == call[a].key
     IN /\ sets' = [sets EXCEPT ![key] = {}]
        /\ call' = [call EXCEPT ![a].pc = "del_key",
                                ![a].touchedSet = @ \/ (sets[key] # {})]
  /\ UNCHANGED bridgeVars /\ UNCHANGED <<kv, lists, last, held, ncalls, scen>>

\* a release that leaves the lock record in place when the last reader goes
RelDelKey_KeepsRecord(a) ==
  /\ call[a].op = "release" /\ call[a].pc = "del_key"
  /\ LET c == call[a]
         e == LockEvent("lock_released", a, "", <<>>, "read")
     IN /\ call' = IF c.removed
                     THEN [call EXCEPT ![a].pc = "pop", ![a].pub = Append(@, e)]
                     ELSE [call EXCEPT ![a] = IdleCall]
        /\ last' = IF c.removed THEN last ELSE Returned([c EXCEPT !.released = FALSE], a)
  /\ UNCHANGED bridgeVars /\ UNCHANGED <<kv, sets, lists, held, ncalls, scen>>

\* await redis.del(baseKey); then lock_released is published when the caller was
\* removed, and false returned when it was not
RelDelKey(a) ==
  /\ call[a].op = "release" /\ call[a].pc = "del_key"
  /\ LET c == call[a]
         key == c.key
         e == LockEvent("lock_released", a, "", <<>>, "read")
         t == c.touchedKv \/ (kv[key] # NoLock)
     IN /\ kv' = [kv EXCEPT ![key] = NoLock]
        /\ call' = IF c.removed
                     THEN [call EXCEPT ![a].pc = "pop", ![a].pub = Append(@, e),
                                       ![a].touchedKv = t]
                     ELSE [call EXCEPT ![a] = IdleCall]
        /\ last' = IF c.removed
                     THEN last
                     ELSE Returned([c EXCEPT !.released = FALSE, !.touchedKv = t], a)
  /\ UNCHANGED bridgeVars /\ UNCHANGED <<sets, lists, held, ncalls, scen>>

\* exclusive lock id: lockInfo = await redis.get(lockId); return false unless
\* lock.agentId === agentId
RelGet(a, lockId) ==
  /\ CanStart(a)
  /\ ~IsReaderForm(lockId)
  /\ LET lockInfo == kv[lockId]
         mine == lockInfo # NoLock /\ lockInfo.agentId = a
         c == ReleaseEntry(a, lockId)
         h == IF mine THEN held \ Released(held, a, lockId) ELSE held
     IN /\ held' = h
        /\ call' = IF mine
                     THEN Observe([call EXCEPT ![a] = [c EXCEPT !.pc = "del",
                                                                !.lock = lockInfo]], h)
                     ELSE call
        /\ last' = IF mine THEN last ELSE Returned([c EXCEPT !.released = FALSE], a)
  /\ ncalls' = ncalls + 1
  /\ UNCHANGED bridgeVars /\ UNCHANGED <<kv, sets, lists, scen>>

\* await redis.del(lockId); then lock_released is published with the fields of
\* the record that was read
RelDel(a) ==
  /\ call[a].op = "release" /\ call[a].pc = "del"
  /\ LET c == call[a]
         key == c.key
         e == LockEvent("lock_released", a, c.lock.workspaceId, c.lock.filePath,
                        c.lock.lockType)
     IN /\ kv' = [kv EXCEPT ![key] = NoLock]
        /\ call' = [call EXCEPT ![a].pc = "pop", ![a].pub = Append(@, e),
                                ![a].touchedKv = @ \/ (kv[key] # NoLock)]
  /\ UNCHANGED bridgeVars /\ UNCHANGED <<sets, lists, last, held, ncalls, scen>>

\* a processLockQueue that takes the first element of the list
RelProcessQueue_PopsHead(a) ==
  /\ call[a].op = "release" /\ call[a].pc = "pop"
  /\ LET c == call[a]
         q == ProcessQueueKey(c.key)
         nonEmpty == q \in QueueKeys /\ lists[q] # <<>>
     IN /\ lists' = IF nonEmpty THEN [lists EXCEPT ![q] = Tail(@)] ELSE lists
        /\ call' = [call EXCEPT ![a] = IdleCall]
        /\ last' = Returned([c EXCEPT !.released = TRUE,
                                      !.retried = IF nonEmpty
                                                    THEN Append(@, lists[q][1])
                                                    ELSE @], a)
  /\ UNCHANGED bridgeVars /\ UNCHANGED <<kv, sets, held, ncalls, scen>>

\* await processLockQueue(key): rpop takes the last element of the list named by
\* ProcessQueueKey and emits it as lock_retry; then return true
RelProcessQueue(a) ==
  /\ call[a].op = "release" /\ call[a].pc = "pop"
  /\ LET c == call[a]
         q == ProcessQueueKey(c.key)
         nonEmpty == q \in QueueKeys /\ lists[q] # <<>>
     IN /\ lists' = IF nonEmpty
                      THEN [lists EXCEPT ![q] = SubSeq(@, 1, Len(@) - 1)]
                      ELSE lists
        /\ call' = [call EXCEPT ![a] = IdleCall]
        /\ last' = Returned([c EXCEPT !.released = TRUE,
                                      !.retried = IF nonEmpty
                                                    THEN Append(@, lists[q][Len(lists[q])])
                                                    ELSE @], a)
  /\ UNCHANGED bridgeVars /\ UNCHANGED <<kv, sets, held, ncalls, scen>>

(***************************************************************************)
(* The fast store drops a lock record when its PX time has run out.        *)
(***************************************************************************)
\* the holds on the key lapse with the record
RecordExpires(k) ==
  /\ kv[k] # NoLock
  /\ kv' = [kv EXCEPT ![k] = NoLock]
  /\ LET h == held \ HoldsOn(held, k)
     IN /\ held' = h
        /\ call' = Observe(call, h)
  /\ UNCHANGED bridgeVars /\ UNCHANGED <<sets, lists, last, ncalls>>

Expire(k) == RecordExpires(k) /\ UNCHANGED scen

(***************************************************************************)
(* The lock protocol under concurrent callers.                             *)
(***************************************************************************)
NextLocks ==
  \/ \E a \in Callers, r \in RequestInputs : ReqGet(a, r.file, r.lockType)
  \/ \E a \in Callers : ReqSaddJoin(a)
  \/ \E a \in Callers : ReqQueue(a)
  \/ \E a \in Callers : ReqSaddNew(a)
  \/ \E a \in Callers : ReqSetRead(a)
  \/ \E a \in Callers : ReqSetNX(a)
  \/ \E a \in Callers : \E id \in LockIdsOf(a) : RelSrem(a, id)
  \/ \E a \in Callers : RelScard(a)
  \/ \E a \in Callers : RelDelReaders(a)
  \/ \E a \in Callers : RelDelKey(a)
  \/ \E a \in Callers : \E id \in LockIdsOf(a) : RelGet(a, id)
  \/ \E a \in Callers : RelDel(a)
  \/ \E a \in Callers : RelProcessQueue(a)
  \/ \E k \in LockKeys : Expire(k)

SpecLocks == InitLocks /\ [][NextLocks]_vars

(***************************************************************************)
(* The waiters scenario: agents request the write lock on the second pair, *)
(* whose waiters queue fills, and take and release read locks on the first *)
(* pair, whose releases process that queue.                                *)
(***************************************************************************)
MaxQueueCalls == 5

WaiterAsks(a) ==
  /\ ncalls < MaxQueueCalls
  /\ RequestEntry(a, File2, "write")
  /\ UNCHANGED scen

QueueReaderAsks(a) ==
  /\ ncalls < MaxQueueCalls
  /\ RequestEntry(a, File1, "read")
  /\ UNCHANGED scen

QueueReaderReleases(a) ==
  /\ ncalls < MaxQueueCalls
  /\ ReaderReleaseEntry(a, ReaderLockId(LockKey(File1.ws, File1.path), a))
  /\ UNCHANGED scen

NextQueue ==
  \/ \E a \in Agents : WaiterAsks(a)
  \/ \E a \in Agents : QueueReaderAsks(a)
  \/ \E a \in Agents : QueueReaderReleases(a)
  \/ \E a \in Agents : ReqSaddJoin(a)
  \/ \E a \in Agents : ReqQueue(a)
  \/ \E a \in Agents : ReqSaddNew(a)
  \/ \E a \in Agents : ReqSetRead(a)
  \/ \E a \in Agents : ReqSetNX(a)
  \/ \E a \in Agents : RelScard(a)
  \/ \E a \in Agents : RelDelReaders(a)
  \/ \E a \in Agents : RelDelKey(a)
  \/ \E a \in Agents : RelProcessQueue(a)

SpecQueue == InitLocks /\ [][NextQueue]_vars

(***************************************************************************)
(* The retry scenario: a holder takes the write lock on the second pair    *)
(* and the waiters request it once each; a waiter that is handed a         *)
(* lock_retry with its entry calls requestFileLock again, except the one   *)
(* that has abandoned its request.  The holder also takes and releases     *)
(* read locks on the first pair, whose releases process the waiters queue  *)
(* of the second.  Lock records may expire.                                *)
(***************************************************************************)
Holder == "a1"

Abandoner == "a2"

Waiters == {"a2", "a3"}

Key2 == LockKey(File2.ws, File2.path)

HolderAsks ==
  /\ ncalls < MaxQueueCalls
  /\ RequestEntry(Holder, File2, "write")
  /\ UNCHANGED scen

FirstAsk(w) ==
  /\ w \notin scen.asked
  /\ RequestEntry(w, File2, "write")
  /\ scen' = [scen EXCEPT !.asked = @ \cup {w}]

\* await processLockQueue(key) with a listener of lock_retry that calls
\* requestFileLock for the waiter of the entry: the listener runs inside
\* emit, and the call it makes is at its redis.get when the release returns
RelProcessQueueRetry(a) ==
  /\ call[a].op = "release" /\ call[a].pc = "pop"
  /\ LET c == call[a]
         q == ProcessQueueKey(c.key)
         nonEmpty == q \in QueueKeys /\ lists[q] # <<>>
         request == lists[q][Len(lists[q])]
         retries == nonEmpty /\ request.agentId # Abandoner
         w == request.agentId
         key == LockKey(request.workspaceId, request.filePath)
         existing == kv[key]
         next == IF existing # NoLock
                   THEN IF request.lockType = "read" /\ existing.lockType = "read"
                          THEN "sadd_join" ELSE "queue"
                   ELSE IF request.lockType = "read" THEN "sadd_new" ELSE "setnx"
     IN /\ lists' = IF nonEmpty
                      THEN [lists EXCEPT ![q] = SubSeq(@, 1, Len(@) - 1)]
                      ELSE lists
        /\ call' = IF retries
                     THEN [call EXCEPT
                             ![a] = IdleCall,
                             ![w] = [IdleCall EXCEPT
                                       !.op = "request", !.pc = next, !.key = key,
                                       !.ws = request.workspaceId,
                                       !.path = request.filePath,
                                       !.lockType = request.lockType,
                                       !.lock = existing,
                                       !.holder = (\E x \in held : x.key = key /\ x.agent = w),
                                       !.rdHolder = (\E x \in held : /\ x.key = key
                                                                     /\ x.agent = w
                                                                     /\ x.kind = "read"),
                                       !.rdHeld = ReadHeldOn(held, key)]]
                     ELSE [call EXCEPT ![a] = IdleCall]
        /\ ncalls' = IF retries THEN ncalls + 1 ELSE ncalls
        /\ last' = Returned([c EXCEPT !.released = TRUE,
                                      !.retried = IF nonEmpty THEN Append(@, request) ELSE @], a)
  /\ UNCHANGED bridgeVars /\ UNCHANGED <<kv, sets, held, scen>>

NextRetry ==
  \/ HolderAsks
  \/ \E w \in Waiters : FirstAsk(w)
  \/ QueueReaderAsks(Holder)
  \/ QueueReaderReleases(Holder)
  \/ \E a \in Agents : RelGet(a, Key2)
  \/ \E a \in Agents : ReqSaddJoin(a)
  \/ \E a \in Agents : ReqQueue(a)
  \/ \E a \in Agents : ReqSaddNew(a)
  \/ \E a \in Agents : ReqSetRead(a)
  \/ \E a \in Agents : ReqSetNX(a)
  \/ \E a \in Agents : RelScard(a)
  \/ \E a \in Agents : RelDelReaders(a)
  \/ \E a \in Agents : RelDelKey(a)
  \/ \E a \in Agents : RelDel(a)
  \/ \E a \in Agents : RelProcessQueueRetry(a)
  \/ Expire(Key2)

\* the steps of a call of agent a that has started: the store answers each
\* command, so the call runs to its end
RetrySteps(a) ==
  \/ ReqSaddJoin(a) \/ ReqQueue(a) \/ ReqSaddNew(a) \/ ReqSetRead(a) \/ ReqSetNX(a)
  \/ RelScard(a) \/ RelDelReaders(a) \/ RelDelKey(a) \/ RelDel(a)
  \/ RelProcessQueueRetry(a)

\* every call that has started runs to its end; whether an agent makes a new
\* call is up to the agent
SpecRetry ==
  InitLocks /\ [][NextRetry]_vars /\ \A a \in Agents : WF_vars(RetrySteps(a))

(***************************************************************************)
(* The reader-sharing scenario: some agents request a read lock on the     *)
(* unlocked first pair, in any interleaving; when all those calls have     *)
(* returned, each of them releases the lock id it was given, in any        *)
(* interleaving.  Lock records may expire meanwhile.                       *)
(***************************************************************************)
Key1 == LockKey(File1.ws, File1.path)

RequestInFlight == \E a \in Agents : call[a].op = "request"

ReaderAsks(a) ==
  /\ a \notin scen.asked
  /\ scen.releasing = {}
  /\ RequestEntry(a, File1, "read")
  /\ scen' = [scen EXCEPT !.asked = @ \cup {a}]

ReaderReleases(a) ==
  /\ a \in scen.asked \ scen.releasing
  /\ ~RequestInFlight
  /\ ReaderReleaseEntry(a, ReaderLockId(Key1, a))
  /\ scen' = [scen EXCEPT !.releasing = @ \cup {a}]

ReaderRecordExpires ==
  /\ RecordExpires(Key1)
  /\ scen' = [scen EXCEPT !.expired = TRUE]

NextReaders ==
  \/ \E a \in Agents : ReaderAsks(a)
  \/ \E a \in Agents : ReqSaddJoin(a)
  \/ \E a \in Agents : ReqSaddNew(a)
  \/ \E a \in Agents : ReqSetRead(a)
  \/ \E a \in Agents : ReaderReleases(a)
  \/ \E a \in Agents : RelScard(a)
  \/ \E a \in Agents : RelDelReaders(a)
  \/ \E a \in Agents : RelDelKey(a)
  \/ \E a \in Agents : RelProcessQueue(a)
  \/ ReaderRecordExpires

SpecReaders == InitLocks /\ [][NextReaders]_vars

(***************************************************************************)
(* WorkspaceInfrastructureBridge: health status and reconnection.  These   *)
(* operators take the bridge state and give the state the code leaves.     *)
(***************************************************************************)
\* this.emit(name, ...): listeners run at once and read the health status
Emit(b, name, service) ==
  [b EXCEPT !.events = Append(@, [name |-> name, service |-> service,
                                  connected |-> b.connected,
                                  overall |-> b.overall])]

\* the overall health of updateOverallHealth
Rollup(connected) ==
  IF connected["redis"] /\ connected["kafka"]
    THEN "healthy"
    ELSE IF connected["redis"] \/ connected["kafka"] THEN "degraded" ELSE "offline"

updateOverallHealth(b) ==
  Emit([b EXCEPT !.overall = Rollup(b.connected)], "health_changed", "")

\* attemptReconnect up to setTimeout: nothing when a reconnect of the service
\* is marked in progress; reconnect_failed when the attempts are used up;
\* otherwise count the attempt, mark the service, and arm a timer that keeps
\* the count read before the increment
attemptReconnect(b, service) ==
  IF service \in b.reconnectInProgress
    THEN b
    ELSE LET attempts == b.reconnectAttempts[service]
         IN IF attempts >= b.config.reconnectAttempts
              THEN Emit([b EXCEPT !.gaveUp[service] = TRUE], "reconnect_failed", service)
              ELSE [b EXCEPT !.reconnectAttempts[service] = attempts + 1,
                             !.reconnectInProgress = @ \cup {service},
                             !.timers = @ (+) SetToBag({[service |-> service,
                                                         attempts |-> attempts]})]

\* handleRedisError / handleKafkaError
handleError(b, service) ==
  LET b1 == [b EXCEPT !.connected[service] = FALSE, !.errorCount[service] = @ + 1]
      b2 == updateOverallHealth(b1)
      b3 == Emit(b2, IF service = "redis" THEN "redis_error" ELSE "kafka_error", service)
  IN attemptReconnect(b3, service)

\* the handlers of the orchestrators' 'connected' events
onConnected(b, service) ==
  LET b1 == [b EXCEPT !.connected[service] = TRUE,
                      !.errorCount[service] = 0,
                      !.reconnectAttempts[service] = 0,
                      !.connectCalls[service] = 0,
                      !.gaveUp[service] = FALSE]
      b2 == updateOverallHealth(b1)
  IN Emit(b2, IF service = "redis" THEN "redis_connected" ELSE "kafka_connected", service)

\* the handlers of the orchestrators' 'disconnected' events
onDisconnected(b, service) ==
  LET b1 == [b EXCEPT !.connected[service] = FALSE]
      b2 == updateOverallHealth(b1)
  IN Emit(b2, IF service = "redis" THEN "redis_disconnected" ELSE "kafka_disconnected",
          service)

\* startHeartbeat: a new interval, kept in heartbeatInterval; `heartbeats' is
\* the number of heartbeat intervals that have not been cleared
startHeartbeat(b) ==
  [b EXCEPT !.heartbeats = @ + 1, !.heartbeatInterval = "live"]

\* startStreamConsumers: a new polling interval for each stream, kept in the
\* streamConsumers map; `pollLoops' is the number of polling intervals of
\* each stream that have not been cleared
startStreamConsumers(b) ==
  [b EXCEPT !.pollLoops = [n \in ConsumedStreams |-> @[n] + 1],
            !.streamConsumers = ConsumedStreams]

\* RedisWorkspaceOrchestrator.connect() after await this.redis.connect() has
\* resolved, up to its emit('connected')
redisConnected(b) ==
  startStreamConsumers(startHeartbeat([b EXCEPT !.redisStatus = "ready",
                                                !.redisIsConnected = TRUE]))

\* RedisWorkspaceOrchestrator.disconnect(): the interval heartbeatInterval
\* refers to and the intervals of the map are cleared, the client is closed
\* and 'disconnected' is emitted
redisDisconnect(b) ==
  onDisconnected(
    [b EXCEPT !.redisIsConnected = FALSE,
              !.heartbeats = IF b.heartbeatInterval = "live" THEN @ - 1 ELSE @,
              !.heartbeatInterval = IF @ = "none" THEN "none" ELSE "cleared",
              !.pollLoops = [n \in ConsumedStreams |->
                               IF n \in b.streamConsumers THEN @[n] - 1 ELSE @[n]],
              !.streamConsumers = {},
              !.redisStatus = "end"],
    "redis")

\* KafkaWorkspaceOrchestrator.disconnect() up to await this.consumer.disconnect()
kafkaDisconnectStarts(b) == [b EXCEPT !.kafkaIsConnected = FALSE]

\* KafkaWorkspaceOrchestrator.disconnect() after consumer and producer have
\* disconnected, or one of them has thrown
kafkaDisconnectSettles(b, ok) ==
  IF ok THEN onDisconnected(b, "kafka") ELSE handleError(b, "kafka")

\* WorkspaceInfrastructureBridge.shutdown up to its await of the
\* durable-store orchestrator's disconnect()
shutdown(b) ==
  [kafkaDisconnectStarts(redisDisconnect(b)) EXCEPT !.shutdown = "kafka"]

\* shutdown from there on
shutdownEnd(b, ok) ==
  Emit([kafkaDisconnectSettles(b, ok) EXCEPT !.shutdown = "done"], "shutdown", "")

\* the timer callback of attemptReconnect after connect() has resolved:
\* the finally clause
timerResolved(b, service) ==
  [b EXCEPT !.reconnectInProgress = @ \ {service},
            !.settled = @ \cup {service}]

\* the timer callback of attemptReconnect after connect() has thrown: the
\* catch clause, then the finally clause
timerRejected(b, service, attempts) ==
  LET b1 == Emit(b, "reconnect_attempt_failed", service)
      b2 == IF attempts + 1 < b.config.reconnectAttempts
              THEN attemptReconnect([b1 EXCEPT !.reconnectInProgress = @ \ {service}],
                                    service)
              ELSE b1
  IN [b2 EXCEPT !.reconnectInProgress = @ \ {service}]

\* a connect() call that has not settled yet: who awaits it (initialize, or a
\* reconnect timer with the attempt count it keeps), and whether it makes the
\* connection ("fresh") or waits for the one being made ("wait")
Connect(service, by, attempts, mode) ==
  [service |-> service, by |-> by, attempts |-> attempts, mode |-> mode]

\* initialize, from the line after the durable store's try / catch on
initializeEnd(b) ==
  Emit(updateOverallHealth([b EXCEPT !.initializing = "no"]), "initialized", "")

\* initialize after kafkaOrchestrator.connect() has resolved / has thrown
initializeKafkaResolved(b) ==
  initializeEnd(Emit([b EXCEPT !.connected["kafka"] = TRUE], "kafka_connected", "kafka"))

initializeKafkaRejected(b) == initializeEnd(handleError(b, "kafka"))

\* initialize at await kafkaOrchestrator.connect(): connect() returns at once
\* when the orchestrator is connected already, and otherwise makes the
\* connection
initializeKafka(b) ==
  IF b.kafkaIsConnected
    THEN initializeKafkaResolved(b)
    ELSE [b EXCEPT !.initializing = "kafka",
                   !.connects = @ (+) SetToBag({Connect("kafka", "init", 0, "fresh")})]

\* initialize after redisOrchestrator.connect() has resolved / has thrown
initializeRedisResolved(b) ==
  initializeKafka(Emit([b EXCEPT !.connected["redis"] = TRUE], "redis_connected", "redis"))

initializeRedisRejected(b) == initializeKafka(handleError(b, "redis"))

\* initialize at await redisOrchestrator.connect(): connect() returns at once
\* when the client's status is 'ready', waits for the connection being made
\* when it is 'connecting', and otherwise makes the connection
initialize(b) ==
  IF b.redisStatus = "ready"
    THEN initializeRedisResolved(b)
    ELSE [b EXCEPT !.initializing = "redis",
                   !.redisStatus = "connecting",
                   !.connects = @ (+) SetToBag({Connect("redis", "init", 0,
                                      IF b.redisStatus = "connecting"
                                        THEN "wait" ELSE "fresh")})]

\* the continuation of the caller of a connect() that has resolved / thrown
resolved(b, c) ==
  IF c.by = "timer"
    THEN timerResolved(b, c.service)
    ELSE IF c.service = "redis" THEN initializeRedisResolved(b)
                                ELSE initializeKafkaResolved(b)

rejected(b, c) ==
  IF c.by = "timer"
    THEN timerRejected(b, c.service, c.attempts)
    ELSE IF c.service = "redis" THEN initializeRedisRejected(b)
                                ELSE initializeKafkaRejected(b)

\* a reconnect timer fires and calls connect() of its service
timerFires(b, t) ==
  LET b1 == [b EXCEPT !.timers = @ (-) SetToBag({t}),
                      !.connectCalls[t.service] = @ + 1]
      returnsAtOnce == IF t.service = "redis" THEN b.redisStatus = "ready"
                                              ELSE b.kafkaIsConnected
      mode == IF t.service = "redis" /\ b.redisStatus = "connecting"
                THEN "wait" ELSE "fresh"
  IN IF returnsAtOnce
       THEN timerResolved(b1, t.service)
       ELSE [b1 EXCEPT !.redisStatus = IF t.service = "redis" THEN "connecting" ELSE @,
                       !.connects = @ (+) SetToBag({Connect(t.service, "timer",
                                                            t.attempts, mode)})]

\* a step starts with nothing emitted
Quiet(b) == [b EXCEPT !.events = <<>>, !.settled = {}]

(***************************************************************************)
(* The orchestrators' data operations as the bridge awaits them.  Each     *)
(* gives the bridge state it leaves (the listeners of the orchestrator's   *)
(* 'error' event run inside emit) and whether it threw.                    *)
(***************************************************************************)
Returns(b) == [b |-> b, threw |-> FALSE]

Throws(b) == [b |-> b, threw |-> TRUE]

\* a command of the fast-store client succeeds on a ready client of a
\* reachable store, and a send of the producer on a reachable durable store
CommandsWork(b) == redisUp /\ b.redisStatus = "ready"

SendWorks == kafkaUp

\* RedisWorkspaceOrchestrator.publishToStream: xadd; a failure is emitted as
\* 'error' and not thrown
publishToStream(b, streamName, message) ==
  IF CommandsWork(b)
    THEN [b EXCEPT !.streams[streamName] = Append(@, message)]
    ELSE handleError(b, "redis")

\* the editData of the edits the callers publish
Edits == { [operation |-> "create", content |-> "c1"],
           [operation |-> "update", content |-> "c2"] }

\* RedisWorkspaceOrchestrator.publishFileEdit
publishFileEdit(b, a, ws, path, editData) ==
  Returns(publishToStream(b, FILE_EDITS,
            [type |-> "file_edit", source |-> a, workspaceId |-> ws, filePath |-> path,
             payload |-> [operation |-> editData.operation,
                          content |-> editData.content]]))

\* RedisWorkspaceOrchestrator.publishAgentEvent
publishAgentEvent(b, eventType, a, ws) ==
  publishToStream(b, AGENT_STATUS,
    [type |-> "agent_status", source |-> a, workspaceId |-> ws, filePath |-> <<>>,
     payload |-> [eventType |-> eventType]])

\* RedisWorkspaceOrchestrator.registerAgent / updateAgentStatus, called at
\* the time `now': hset throws when it fails
registerAgent(b, a, agentInfo, now) ==
  LET agentData == [name |-> agentInfo.name, model |-> agentInfo.model,
                    capabilities |-> agentInfo.capabilities,
                    workspaceId |-> agentInfo.workspaceId,
                    registeredAt |-> now, lastHeartbeat |-> now, status |-> "active"]
  IN IF CommandsWork(b)
       THEN Returns(publishAgentEvent([b EXCEPT !.registry[a] = hset(@, agentData)],
                                      "agent_registered", a, agentInfo.workspaceId))
       ELSE Throws(b)

updateAgentStatus(b, a, ws, status, currentTask, now) ==
  IF CommandsWork(b)
    THEN Returns(publishAgentEvent(
                   [b EXCEPT !.registry[a] =
                      hset(@, [status |-> status, lastHeartbeat |-> now,
                               currentTask |-> currentTask])],
                   "status_update", a, ws))
    ELSE Throws(b)

\* RedisWorkspaceOrchestrator.publishConsensusVote
publishConsensusVote(b, a, ws) ==
  Returns(publishToStream(b, CONSENSUS_VOTES,
            [type |-> "consensus_vote", source |-> a, workspaceId |-> ws, filePath |-> <<>>,
             payload |-> [vote |-> "agree"]]))

\* KafkaWorkspaceOrchestrator.getNextSequence
getNextSequence_NotCounting(b) == b

getNextSequence(b) == [b EXCEPT !.sequenceNumber = @ + 1]

\* KafkaWorkspaceOrchestrator.publishMessage up to its await: the message is
\* handed to producer.send
handToProducer(b, topic, message) ==
  [b EXCEPT !.handed = Append(@, [topic |-> topic,
                                  sequenceNumber |-> message.sequenceNumber])]

\* publishMessage after its await: the message is on the topic, or the failure
\* is emitted as 'error' and thrown
sendSettles(b, topic, message) ==
  IF SendWorks
    THEN Returns([b EXCEPT !.topics[topic] = Append(@, message)])
    ELSE Throws(handleError(b, "kafka"))

\* KafkaWorkspaceOrchestrator.publishMessage awaited by a bridge operation
publishMessage(b, topic, message) ==
  sendSettles(handToProducer(b, topic, message), topic, message)

\* the WorkspaceKafkaMessage the log operations build: the sequence number
\* is taken while the message is built
KafkaMessage(b, type, a, ws, payload) ==
  [type |-> type, source |-> a, workspaceId |-> ws, payload |-> payload,
   sequenceNumber |-> b.sequenceNumber]

\* KafkaWorkspaceOrchestrator.logFileEdit
logFileEdit(b, a, ws, path, editData) ==
  LET b1 == getNextSequence(b)
  IN publishMessage(b1, EDIT_HISTORY,
       KafkaMessage(b1, "edit_history", a, ws,
                    [filePath |-> path, operation |-> editData.operation,
                     newContent |-> editData.newContent, reason |-> editData.reason]))

\* KafkaWorkspaceOrchestrator.saveWorkspaceSnapshot / logConsensusDecision /
\* logAgentCoordination
saveWorkspaceSnapshot(b, a, ws) ==
  LET b1 == getNextSequence(b)
  IN publishMessage(b1, WORKSPACE_SNAPSHOTS,
       KafkaMessage(b1, "workspace_snapshot", a, ws, [reason |-> "periodic_snapshot"]))

logConsensusDecision(b, a, ws) ==
  LET b1 == getNextSequence(b)
  IN publishMessage(b1, CONSENSUS_DECISIONS,
       KafkaMessage(b1, "consensus_decision", a, ws, [finalDecision |-> "approved"]))

logAgentCoordination(b, a, ws) ==
  LET b1 == getNextSequence(b)
  IN publishMessage(b1, AGENT_COORDINATION,
       KafkaMessage(b1, "agent_coordination", a, ws, [task |-> "Agent registration"]))

\* the log operations of KafkaWorkspaceOrchestrator with the topic each
\* publishes to and the type of its messages
LogTopic ==
  [logFileEdit |-> EDIT_HISTORY, saveWorkspaceSnapshot |-> WORKSPACE_SNAPSHOTS,
   logConsensusDecision |-> CONSENSUS_DECISIONS, logAgentCoordination |-> AGENT_COORDINATION,
   logConflictResolution |-> CONFLICT_RESOLUTION,
   startWorkspaceSession |-> SESSION_MANAGEMENT, endWorkspaceSession |-> SESSION_MANAGEMENT]

LogType ==
  [logFileEdit |-> "edit_history", saveWorkspaceSnapshot |-> "workspace_snapshot",
   logConsensusDecision |-> "consensus_decision", logAgentCoordination |-> "agent_coordination",
   logConflictResolution |-> "conflict_resolution",
   startWorkspaceSession |-> "workspace_snapshot", endWorkspaceSession |-> "workspace_snapshot"]

LogOps == DOMAIN LogTopic

\* a log operation from its call to the await of producer.send: it takes the
\* next sequence number while it builds its message and hands the message
\* to the producer, all without an await in between
logStarts(b, op, a, ws) ==
  LET b1 == getNextSequence(b)
      message == KafkaMessage(b1, LogType[op], a, ws, [operation |-> op])
  IN [handToProducer(b1, LogTopic[op], message)
        EXCEPT !.sends = @ \cup {[topic |-> LogTopic[op], message |-> message]}]

(***************************************************************************)
(* WorkspaceInfrastructureBridge: the data operations.  Each gives the     *)
(* bridge state it leaves and whether it raised to its caller.             *)
(***************************************************************************)
\* try { await <orchestrator call> } catch (error) { handle<Service>Error }
catchError_Rethrows(r, service) == [b |-> r.b, raised |-> r.threw]

catchError(r, service) ==
  [b |-> IF r.threw THEN handleError(r.b, service) ELSE r.b, raised |-> FALSE]

\* emitOperation
emitOperation(b) == Emit(b, "workspace_operation", "")

\* what a bridge call that found b0 leaves with b1
After(b0, b1) ==
  [connected |-> b1.connected, overall |-> b1.overall,
   appended |-> SubSeq(b1.streams[FILE_EDITS],
                       Len(b0.streams[FILE_EDITS]) + 1, Len(b1.streams[FILE_EDITS]))]

\* the names of the events emitted in a step
EventNames(b) == [i \in 1..Len(b.events) |-> b.events[i].name]

\* what a bridge call finds at its entry
Entry(b) ==
  [connected |-> b.connected,
   commandsWork |-> CommandsWork(b), sendWorks |-> SendWorks,
   edits |-> Len(b.streams[FILE_EDITS]), editHistory |-> Len(b.topics[EDIT_HISTORY]),
   kafkaIsConnected |-> b.kafkaIsConnected,
   reconnecting |-> { t.service : t \in BagToSet(b.timers) }
                      \cup { c.service : c \in BagToSet(b.connects) }]

\* the part of an operation for one store: skipped when the store is not
\* marked connected
Skipped(b) == [b |-> b, raised |-> FALSE]

\* the end of an operation: emitOperation unless the operation has raised
Routed(r) == IF r.raised THEN r ELSE [b |-> emitOperation(r.b), raised |-> FALSE]

\* the durable-store part after the fast-store part r
ThenKafka_HandledAsRedis(r, logged) ==
  IF r.raised \/ ~r.b.connected["kafka"] THEN r ELSE catchError(logged, "redis")

ThenKafka(r, logged) ==
  IF r.raised \/ ~r.b.connected["kafka"] THEN r ELSE catchError(logged, "kafka")

bridgePublishFileEdit(b, a, ws, path, editData) ==
  LET r1 == IF b.connected["redis"]
              THEN catchError(publishFileEdit(b, a, ws, path, editData), "redis")
              ELSE Skipped(b)
      r2 == ThenKafka(r1, logFileEdit(r1.b, a, ws, path,
                                      [operation |-> editData.operation,
                                       newContent |-> editData.content,
                                       reason |-> ""]))
  IN Routed(r2)

bridgeRegisterAgent(b, a, ws, agentInfo, now) ==
  LET r1 == IF b.connected["redis"]
              THEN catchError(registerAgent(b, a, [name |-> agentInfo.name,
                                                   model |-> agentInfo.model,
                                                   capabilities |-> agentInfo.capabilities,
                                                   workspaceId |-> ws], now),
                              "redis")
              ELSE Skipped(b)
      r2 == ThenKafka(r1, logAgentCoordination(r1.b, a, ws))
  IN Routed(r2)

bridgeUpdateAgentStatus(b, a, ws, status, currentTask, now) ==
  Routed(IF b.connected["redis"]
           THEN catchError(updateAgentStatus(b, a, ws, status, currentTask, now), "redis")
           ELSE Skipped(b))

bridgePublishConsensusVote(b, a, ws) ==
  Routed(IF b.connected["redis"]
           THEN catchError(publishConsensusVote(b, a, ws), "redis")
           ELSE Skipped(b))

bridgeLogConsensusDecision(b, a, ws) ==
  Routed(ThenKafka(Skipped(b), logConsensusDecision(b, a, ws)))

bridgeSaveWorkspaceSnapshot(b, a, ws) ==
  Routed(ThenKafka(Skipped(b), saveWorkspaceSnapshot(b, a, ws)))

(***************************************************************************)
(* The orchestrator's lock calls as the bridge awaits them: the commands   *)
(* of one call in their order, on the fast store st = [kv, sets, lists].   *)
(***************************************************************************)
GetRecord(st, key) == IF key \in DOMAIN st.kv THEN st.kv[key] ELSE NoLock

Members(st, key) == IF key \in DOMAIN st.sets THEN st.sets[key] ELSE {}

\* requestFileLock: the store it leaves and the lock id it returns
requestFileLock(st, a, ws, path, t) ==
  LET key == LockKey(ws, path)
      existing == GetRecord(st, key)
      q == QueueKey(ws, path)
      queued == [st EXCEPT !.lists[q] = <<QueueEntry(a, t, ws, path)>> \o @]
  IN IF existing # NoLock
       THEN IF t = "read" /\ existing.lockType = "read" /\ a \notin Members(st, key)
              THEN [store |-> [st EXCEPT !.sets[key] = @ \cup {a}],
                    lockId |-> ReaderLockId(key, a)]
              ELSE [store |-> queued, lockId |-> Null]
       ELSE IF t = "read"
              THEN [store |-> [st EXCEPT !.sets[key] = @ \cup {a},
                                         !.kv[key] = LockValue(a, t, ws, path)],
                    lockId |-> ReaderLockId(key, a)]
              ELSE [store |-> [st EXCEPT !.kv[key] = LockValue(a, t, ws, path)],
                    lockId |-> key]

\* processLockQueue: rpop from the list named by ProcessQueueKey
processLockQueue(st, key) ==
  LET q == ProcessQueueKey(key)
  IN IF q \in DOMAIN st.lists /\ st.lists[q] # <<>>
       THEN [st EXCEPT !.lists[q] = SubSeq(@, 1, Len(@) - 1)]
       ELSE st

\* del of a lock key and of its readers set
DelRecord(st, key) == IF key \in DOMAIN st.kv THEN [st EXCEPT !.kv[key] = NoLock] ELSE st

DelMembers(st, key) == IF key \in DOMAIN st.sets THEN [st EXCEPT !.sets[key] = {}] ELSE st

\* releaseFileLock: the store it leaves and the boolean it returns
releaseFileLock(st, lockId, a) ==
  IF IsReaderForm(lockId)
    THEN LET baseKey == BaseKey(lockId)
             removed == a \in Members(st, baseKey)
             st1 == IF removed THEN [st EXCEPT !.sets[baseKey] = @ \ {a}] ELSE st
             st2 == IF Members(st1, baseKey) = {}
                      THEN DelRecord(DelMembers(st1, baseKey), baseKey)
                      ELSE st1
         IN IF removed
              THEN [store |-> processLockQueue(st2, baseKey), released |-> TRUE]
              ELSE [store |-> st2, released |-> FALSE]
    ELSE LET lockInfo == GetRecord(st, lockId)
         IN IF lockInfo # NoLock /\ lockInfo.agentId = a
              THEN [store |-> processLockQueue(DelRecord(st, lockId), lockId),
                    released |-> TRUE]
              ELSE [store |-> st, released |-> FALSE]

(***************************************************************************)
(* The bridge's fallback lock manager on fb = fallbackStorage.             *)
(***************************************************************************)
GetFallback(fb, key) == IF key \in DOMAIN fb THEN fb[key] ELSE NoFallbackLock

\* fallbackFileLock: the map it leaves and the lock id it returns
fallbackFileLock(fb, a, ws, path, t) ==
  LET lockKey == FallbackKey(ws, path)
      existingLock == GetFallback(fb, lockKey)
  IN IF existingLock # NoFallbackLock
       THEN IF t = "read" /\ existingLock.lockType = "read"
              THEN [fb |-> [fb EXCEPT ![lockKey].hasReaders = TRUE,
                                      ![lockKey].readers = Append(@, a)],
                    lockId |-> ReaderLockId(lockKey, a)]
              ELSE [fb |-> fb, lockId |-> Null]
       ELSE [fb |-> [fb EXCEPT ![lockKey] = [agentId |-> a, lockType |-> t,
                                             hasReaders |-> FALSE, readers |-> <<>>]],
             lockId |-> lockKey]

\* fallbackLockRelease: the map it leaves and the boolean it returns
fallbackLockRelease(fb, lockId, a) ==
  IF IsReaderForm(lockId)
    THEN LET baseKey == BaseKey(lockId)
             lock == GetFallback(fb, baseKey)
             readers == SelectSeq(lock.readers, LAMBDA id : id # a)
         IN IF lock # NoFallbackLock /\ lock.hasReaders
              THEN [fb |-> IF Len(readers) = 0
                             THEN [fb EXCEPT ![baseKey] = NoFallbackLock]
                             ELSE [fb EXCEPT ![baseKey].readers = readers],
                    released |-> TRUE]
              ELSE [fb |-> fb, released |-> FALSE]
    ELSE LET lock == GetFallback(fb, lockId)
         IN IF lock # NoFallbackLock /\ lock.agentId = a
              THEN [fb |-> [fb EXCEPT ![lockId] = NoFallbackLock], released |-> TRUE]
              ELSE [fb |-> fb, released |-> FALSE]

(***************************************************************************)
(* The bridge under backend faults.  A bridge lock call runs from entry to *)
(* return in one step; initialize and the reconnect timers await connect() *)
(* calls that settle in later steps.                                       *)
(***************************************************************************)
MaxBridgeCalls == 4

MaxFaults == 3

MaxInits == 2

Store == [kv |-> kv, sets |-> sets, lists |-> lists]

\* the lock ids the bridge has handed to an agent
IdsOf(a) == { x.lockId : x \in { y \in bheld : y.agent = a } }

\* a lock id the bridge has handed out: the key is the lock key of the lock
\* manager that granted it
Hold(a, ws, path, kind, lockId, via) ==
  [agent |-> a, ws |-> ws, path |-> path, key |-> BaseKey(lockId), kind |-> kind,
   lockId |-> lockId, via |-> via]

\* WorkspaceInfrastructureBridge.requestFileLock.  A command on the fast store
\* fails when the client is not 'ready', and a publish to the durable store
\* fails when that store is unreachable.
BridgeRequestFileLock(a, f, t) ==
  /\ nbcalls < MaxBridgeCalls
  /\ LET b0 == Quiet(sup)
         viaRedis == b0.connected["redis"]
         commandsWork == CommandsWork(b0)
         r == requestFileLock(Store, a, f.ws, f.path, t)
         granted == viaRedis /\ commandsWork /\ r.lockId # Null
         logs == granted /\ b0.connected["kafka"]
         logged == logFileEdit(b0, a, f.ws, f.path,
                               [operation |-> "update", newContent |-> "",
                                reason |-> <<"Lock acquired", t>>])
         kafkaFailed == logs /\ logged.threw
         tried == IF ~commandsWork
                    THEN Returns(emitOperation(handleError(b0, "redis")))
                    ELSE IF kafkaFailed
                           THEN logged
                           ELSE Returns(emitOperation(IF logs THEN logged.b ELSE b0))
         c == IF viaRedis THEN catchError(tried, "redis") ELSE Skipped(b0)
         b1 == c.b
         usedFallback == ~c.raised /\ (~viaRedis \/ kafkaFailed)
         fl == fallbackFileLock(fallbackStorage, a, f.ws, f.path, t)
         result == IF c.raised
                     THEN Null
                     ELSE IF usedFallback
                            THEN fl.lockId
                            ELSE IF commandsWork THEN r.lockId ELSE Null
     IN /\ sup' = b1
        /\ kv' = IF viaRedis /\ commandsWork THEN r.store.kv ELSE kv
        /\ sets' = IF viaRedis /\ commandsWork THEN r.store.sets ELSE sets
        /\ lists' = IF viaRedis /\ commandsWork THEN r.store.lists ELSE lists
        /\ fallbackStorage' = IF usedFallback THEN fl.fb ELSE fallbackStorage
        /\ bheld' = IF result # Null
                      THEN bheld \cup {Hold(a, f.ws, f.path, t, result,
                                            IF usedFallback THEN "fallback" ELSE "redis")}
                      ELSE bheld
        /\ blast' = [NoBridgeCall EXCEPT
                       !.op = "request", !.agent = a, !.lockType = t,
                       !.viaRedis = viaRedis,
                       !.redisResult = IF viaRedis /\ commandsWork THEN r.lockId ELSE Null,
                       !.kafkaFailed = kafkaFailed,
                       !.usedFallback = usedFallback,
                       !.readHeld = (\E x \in bheld : /\ x.kind = "read"
                                                     /\ x.ws = f.ws /\ x.path = f.path),
                       !.result = result,
                       !.redisConnectedAfter = b1.connected["redis"],
                       !.raised = c.raised,
                       !.events = EventNames(b1),
                       !.entry = Entry(b0),
                       !.after = After(b0, b1)]
  /\ nbcalls' = nbcalls + 1
  /\ UNCHANGED <<call, last, held, ncalls, scen, redisUp, kafkaUp, faults, inits>>

\* extractWorkspaceFromLock: the second part of the lock id split at ':'
extractWorkspaceFromLock(lockId) == IF Len(lockId) > 1 THEN lockId[2] ELSE "unknown"

\* WorkspaceInfrastructureBridge.releaseFileLock
BridgeReleaseFileLock(a, lockId) ==
  /\ nbcalls < MaxBridgeCalls
  /\ LET b0 == Quiet(sup)
         viaRedis == b0.connected["redis"]
         commandsWork == CommandsWork(b0)
         r == releaseFileLock(Store, lockId, a)
         redisReleased == viaRedis /\ commandsWork /\ r.released
         logs == redisReleased /\ b0.connected["kafka"]
         logged == logFileEdit(b0, a, extractWorkspaceFromLock(lockId), <<>>,
                               [operation |-> "update", newContent |-> "",
                                reason |-> <<"Lock released">>])
         kafkaFailed == logs /\ logged.threw
         tried == IF ~commandsWork
                    THEN Returns(emitOperation(handleError(b0, "redis")))
                    ELSE IF kafkaFailed
                           THEN logged
                           ELSE Returns(emitOperation(IF logs THEN logged.b ELSE b0))
         c == IF viaRedis THEN catchError(tried, "redis") ELSE Skipped(b0)
         b1 == c.b
         usedFallback == ~c.raised /\ (~viaRedis \/ kafkaFailed)
         fl == fallbackLockRelease(fallbackStorage, lockId, a)
         released == IF c.raised
                       THEN FALSE
                       ELSE IF usedFallback THEN fl.released ELSE redisReleased
     IN /\ sup' = b1
        /\ kv' = IF viaRedis /\ commandsWork THEN r.store.kv ELSE kv
        /\ sets' = IF viaRedis /\ commandsWork THEN r.store.sets ELSE sets
        /\ lists' = IF viaRedis /\ commandsWork THEN r.store.lists ELSE lists
        /\ fallbackStorage' = IF usedFallback THEN fl.fb ELSE fallbackStorage
        /\ bheld' = IF released \/ redisReleased
                      THEN bheld \ Released(bheld, a, lockId)
                      ELSE bheld
        /\ blast' = [NoBridgeCall EXCEPT
                       !.op = "release", !.agent = a, !.lockId = lockId,
                       !.viaRedis = viaRedis,
                       !.redisReleased = redisReleased,
                       !.kafkaFailed = kafkaFailed,
                       !.usedFallback = usedFallback,
                       !.released = released,
                       !.redisConnectedAfter = b1.connected["redis"],
                       !.raised = c.raised,
                       !.events = EventNames(b1),
                       !.entry = Entry(b0),
                       !.after = After(b0, b1)]
  /\ nbcalls' = nbcalls + 1
  /\ UNCHANGED <<call, last, held, ncalls, scen, redisUp, kafkaUp, faults, inits>>

\* a data operation of the bridge is called and runs to its end, leaving r
DataCall(op, a, editData, r) ==
  /\ nbcalls < MaxBridgeCalls
  /\ sup' = r.b
  /\ blast' = [NoBridgeCall EXCEPT !.op = op, !.agent = a, !.editData = editData,
                                   !.raised = r.raised, !.events = EventNames(r.b),
                                   !.entry = Entry(sup), !.after = After(sup, r.b)]
  /\ nbcalls' = nbcalls + 1
  /\ UNCHANGED <<kv, sets, lists, call, last, held, ncalls, scen,
                 redisUp, kafkaUp, fallbackStorage, bheld, faults, inits>>

\* WorkspaceInfrastructureBridge.publishFileEdit
BridgePublishFileEdit(a, f, editData) ==
  DataCall("publishFileEdit", a, editData,
           bridgePublishFileEdit(Quiet(sup), a, f.ws, f.path, editData))

\* WorkspaceInfrastructureBridge.registerAgent
BridgeRegisterAgent(a, ws, agentInfo, now) ==
  DataCall("registerAgent", a, NoBridgeCall.editData,
           bridgeRegisterAgent(Quiet(sup), a, ws, agentInfo, now))

\* WorkspaceInfrastructureBridge.updateAgentStatus
BridgeUpdateAgentStatus(a, ws, status, currentTask, now) ==
  DataCall("updateAgentStatus", a, NoBridgeCall.editData,
           bridgeUpdateAgentStatus(Quiet(sup), a, ws, status, currentTask, now))

\* WorkspaceInfrastructureBridge.publishConsensusVote
BridgePublishConsensusVote(a, ws) ==
  DataCall("publishConsensusVote", a, NoBridgeCall.editData,
           bridgePublishConsensusVote(Quiet(sup), a, ws))

\* WorkspaceInfrastructureBridge.logConsensusDecision
BridgeLogConsensusDecision(a, ws) ==
  DataCall("logConsensusDecision", a, NoBridgeCall.editData,
           bridgeLogConsensusDecision(Quiet(sup), a, ws))

\* WorkspaceInfrastructureBridge.saveWorkspaceSnapshot
BridgeSaveWorkspaceSnapshot(a, ws) ==
  DataCall("saveWorkspaceSnapshot", a, NoBridgeCall.editData,
           bridgeSaveWorkspaceSnapshot(Quiet(sup), a, ws))

\* the fast store drops a lock record; the holds the bridge handed out on it lapse
BridgeRecordExpires(k) ==
  /\ kv[k] # NoLock
  /\ kv' = [kv EXCEPT ![k] = NoLock]
  /\ bheld' = { x \in bheld : ~(x.via = "redis" /\ LockKey(x.ws, x.path) = k) }
  /\ sup' = Quiet(sup)
  /\ UNCHANGED <<sets, lists, call, last, held, ncalls, scen,
                 redisUp, kafkaUp, fallbackStorage, blast, nbcalls, faults, inits>>

\* WorkspaceInfrastructureBridge.initialize is called
Initialize ==
  /\ inits < MaxInits
  /\ sup.initializing = "no"
  /\ sup' = initialize(Quiet(sup))
  /\ inits' = inits + 1
  /\ UNCHANGED <<kv, sets, lists, call, last, held, ncalls, scen,
                 redisUp, kafkaUp, fallbackStorage, bheld, blast, nbcalls, faults>>

\* a reconnect timer of attemptReconnect fires
TimerFires(t) ==
  /\ BagIn(t, sup.timers)
  /\ sup' = timerFires(Quiet(sup), t)
  /\ UNCHANGED <<kv, sets, lists, call, last, held, ncalls, scen,
                 redisUp, kafkaUp, fallbackStorage, bheld, blast, nbcalls, faults, inits>>

\* the callers that wait for the fast-store connection being made settle with
\* it: 'ready' resolves them, 'error' rejects them
RECURSIVE SettleWaiters(_, _)
SettleWaiters(b, ok) ==
  LET waiting == { c \in BagToSet(b.connects) : c.service = "redis" /\ c.mode = "wait" }
  IN IF waiting = {}
       THEN b
       ELSE LET c == CHOOSE w \in waiting : TRUE
                b1 == [b EXCEPT !.connects = @ (-) SetToBag({c})]
            IN SettleWaiters(IF ok THEN resolved(b1, c) ELSE rejected(b1, c), ok)

\* RedisWorkspaceOrchestrator.connect() from await this.redis.connect() on:
\* the connection is made and 'connected' emitted, or 'error' is emitted and
\* the error thrown; a client closed meanwhile makes no connection
RedisConnectSettles(c) ==
  /\ BagIn(c, sup.connects)
  /\ c.service = "redis" /\ c.mode = "fresh"
  /\ LET b0 == [Quiet(sup) EXCEPT !.connects = @ (-) SetToBag({c})]
     IN sup' = IF redisUp /\ sup.redisStatus = "connecting"
                 THEN SettleWaiters(
                        resolved(onConnected(redisConnected(b0), "redis"), c),
                        TRUE)
                 ELSE SettleWaiters(
                        rejected(handleError([b0 EXCEPT !.redisStatus = "end"], "redis"), c),
                        FALSE)
  /\ UNCHANGED <<kv, sets, lists, call, last, held, ncalls, scen,
                 redisUp, kafkaUp, fallbackStorage, bheld, blast, nbcalls, faults, inits>>

\* KafkaWorkspaceOrchestrator.connect() from await this.producer.connect() on:
\* producer and consumer connect, the consumer subscribes and runs, and
\* 'connected' is emitted; or 'error' is emitted and the error thrown
KafkaConnectSettles(c) ==
  /\ BagIn(c, sup.connects)
  /\ c.service = "kafka"
  /\ LET b0 == [Quiet(sup) EXCEPT !.connects = @ (-) SetToBag({c})]
     IN sup' = IF kafkaUp
                 THEN resolved(onConnected([b0 EXCEPT !.kafkaIsConnected = TRUE,
                                                      !.subscriptions = @ + 1],
                                           "kafka"), c)
                 ELSE rejected(handleError(b0, "kafka"), c)
  /\ UNCHANGED <<kv, sets, lists, call, last, held, ncalls, scen,
                 redisUp, kafkaUp, fallbackStorage, bheld, blast, nbcalls, faults, inits>>

\* the fast store becomes unreachable; a connected client loses its
\* connection and the orchestrator emits 'error'
RedisGoesDown ==
  /\ redisUp /\ faults < MaxFaults
  /\ redisUp' = FALSE
  /\ faults' = faults + 1
  /\ sup' = IF sup.redisStatus = "ready"
              THEN handleError([Quiet(sup) EXCEPT !.redisStatus = "end"], "redis")
              ELSE Quiet(sup)
  /\ UNCHANGED <<kv, sets, lists, call, last, held, ncalls, scen,
                 kafkaUp, fallbackStorage, bheld, blast, nbcalls, inits>>

RedisComesUp ==
  /\ ~redisUp
  /\ redisUp' = TRUE
  /\ sup' = Quiet(sup)
  /\ UNCHANGED <<kv, sets, lists, call, last, held, ncalls, scen,
                 kafkaUp, fallbackStorage, bheld, blast, nbcalls, faults, inits>>

\* the fast-store orchestrator emits 'error' (client error, heartbeat, stream
\* consumer) without a change of the client's status
RedisErrorEvent ==
  /\ sup.redisStatus # "wait" /\ faults < MaxFaults
  /\ faults' = faults + 1
  /\ sup' = handleError(Quiet(sup), "redis")
  /\ UNCHANGED <<kv, sets, lists, call, last, held, ncalls, scen,
                 redisUp, kafkaUp, fallbackStorage, bheld, blast, nbcalls, inits>>

KafkaGoesDown ==
  /\ kafkaUp /\ faults < MaxFaults
  /\ kafkaUp' = FALSE
  /\ faults' = faults + 1
  /\ sup' = Quiet(sup)
  /\ UNCHANGED <<kv, sets, lists, call, last, held, ncalls, scen,
                 redisUp, fallbackStorage, bheld, blast, nbcalls, inits>>

KafkaComesUp ==
  /\ ~kafkaUp
  /\ kafkaUp' = TRUE
  /\ sup' = Quiet(sup)
  /\ UNCHANGED <<kv, sets, lists, call, last, held, ncalls, scen,
                 redisUp, fallbackStorage, bheld, blast, nbcalls, faults, inits>>

\* the durable-store orchestrator emits 'error' (consumer crash, message handling)
KafkaErrorEvent ==
  /\ sup.kafkaIsConnected /\ faults < MaxFaults
  /\ faults' = faults + 1
  /\ sup' = handleError(Quiet(sup), "kafka")
  /\ UNCHANGED <<kv, sets, lists, call, last, held, ncalls, scen,
                 redisUp, kafkaUp, fallbackStorage, bheld, blast, nbcalls, inits>>

\* WorkspaceInfrastructureBridge.shutdown is called
Shutdown ==
  /\ sup.shutdown = "no"
  /\ sup' = shutdown(Quiet(sup))
  /\ UNCHANGED <<kv, sets, lists, call, last, held, ncalls, scen,
                 redisUp, kafkaUp, fallbackStorage, bheld, blast, nbcalls, faults, inits>>

\* the durable-store orchestrator's disconnect() settles and shutdown ends
KafkaDisconnectSettles ==
  /\ sup.shutdown = "kafka"
  /\ \E ok \in (IF kafkaUp THEN {TRUE} ELSE BOOLEAN) :
       sup' = shutdownEnd(Quiet(sup), ok)
  /\ UNCHANGED <<kv, sets, lists, call, last, held, ncalls, scen,
                 redisUp, kafkaUp, fallbackStorage, bheld, blast, nbcalls, faults, inits>>

\* the fast store becomes unreachable and the client has not noticed yet:
\* its status stays 'ready' and its commands fail
RedisConnectionLost ==
  /\ redisUp /\ faults < MaxFaults
  /\ redisUp' = FALSE
  /\ faults' = faults + 1
  /\ sup' = Quiet(sup)
  /\ UNCHANGED <<kv, sets, lists, call, last, held, ncalls, scen,
                 kafkaUp, fallbackStorage, bheld, blast, nbcalls, inits>>

\* the number of log operations called on the durable-store orchestrator
MaxSends == 3

\* a log operation of the durable-store orchestrator is called
KafkaLogStarts(op, a, ws) ==
  /\ sup.sequenceNumber < MaxSends
  /\ sup' = logStarts(Quiet(sup), op, a, ws)
  /\ UNCHANGED <<kv, sets, lists, call, last, held, ncalls, scen,
                 redisUp, kafkaUp, fallbackStorage, bheld, blast, nbcalls, faults, inits>>

\* a producer.send settles and the log operation that awaits it ends
KafkaSendSettles(m) ==
  /\ m \in sup.sends
  /\ sup' = sendSettles([Quiet(sup) EXCEPT !.sends = @ \ {m}], m.topic, m.message).b
  /\ UNCHANGED <<kv, sets, lists, call, last, held, ncalls, scen,
                 redisUp, kafkaUp, fallbackStorage, bheld, blast, nbcalls, faults, inits>>

(***************************************************************************)
(* MultiAgentWorkspace.calculateConsensus.  A quotient of two counts is     *)
(* kept as the pair of them.                                               *)
(***************************************************************************)
\* the number of agents that vote, and their ids
MaxVoters == 4

VoterIds == <<"a1", "a2", "a3", "a4", "a5", "a6">>

Voters == { VoterIds[i] : i \in 1..MaxVoters }

VoteValues == {"agree", "disagree", "abstain"}

\* the vote maps: the votes of some of the voters
VoteMaps == UNION { [S -> VoteValues] : S \in SUBSET Voters }

\* Object.values(votes).reduce(...): the number of votes of each value
voteCount_AbstainAgrees(votes) ==
  [v \in VoteValues |->
     Cardinality({a \in DOMAIN votes : votes[a] = v \/ (v = "agree" /\ votes[a] = "abstain")})]

voteCount(votes) ==
  [v \in VoteValues |-> Cardinality({a \in DOMAIN votes : votes[a] = v})]

calculateConsensus_HalfSuffices(votes) ==
  LET total == Cardinality(DOMAIN votes)
      agree == voteCount(votes)["agree"]
      disagree == voteCount(votes)["disagree"]
  IN IF 2 * agree >= total
       THEN [result |-> "approved", confidence |-> [num |-> agree, den |-> total]]
       ELSE IF 2 * disagree >= total
              THEN [result |-> "rejected", confidence |-> [num |-> disagree, den |-> total]]
              ELSE [result |-> "deadlock", confidence |-> [num |-> 1, den |-> 2]]

\* agree > total / 2 is 2 * agree > total
calculateConsensus(votes) ==
  LET total == Cardinality(DOMAIN votes)
      agree == voteCount(votes)["agree"]
      disagree == voteCount(votes)["disagree"]
  IN IF 2 * agree > total
       THEN [result |-> "approved", confidence |-> [num |-> agree, den |-> total]]
       ELSE IF 2 * disagree > total
              THEN [result |-> "rejected", confidence |-> [num |-> disagree, den |-> total]]
              ELSE [result |-> "deadlock", confidence |-> [num |-> 1, den |-> 2]]

\* the consensus helper is called with a vote map and returns
CalculateConsensus(votes) ==
  /\ blast' = [NoBridgeCall EXCEPT !.op = "calculateConsensus", !.votes = votes,
                                   !.consensus = calculateConsensus(votes)]
  /\ UNCHANGED <<kv, sets, lists, call, last, held, ncalls, scen, sup,
                 redisUp, kafkaUp, fallbackStorage, bheld, nbcalls, faults, inits>>

\* the values of the messages the consumer is handed: no value, texts that
\* are not JSON, JSON texts that are no envelope, and the text of an envelope
EnvelopeText == "{\"id\":\"m1\",\"type\":\"file_edit\",\"agentId\":\"a1\",\"workspaceId\":\"ws1\"}"

MessageValues ==
  {[present |-> FALSE, text |-> ""]} \cup
  [present : {TRUE}, text : {"{invalid-json}", "", "42", "{}", EnvelopeText}]

\* JSON.parse: the value the text denotes, or a SyntaxError
JsonDocuments ==
  ("42" :> [kind |-> "number", type |-> "", agentId |-> "", workspaceId |-> ""]) @@
  ("{}" :> [kind |-> "object", type |-> "", agentId |-> "", workspaceId |-> ""]) @@
  (EnvelopeText :> [kind |-> "object", type |-> "file_edit", agentId |-> "a1",
                    workspaceId |-> "ws1"])

JSONparse(text) ==
  IF text \in DOMAIN JsonDocuments
    THEN [threw |-> FALSE, value |-> JsonDocuments[text]]
    ELSE [threw |-> TRUE, value |-> [kind |-> "", type |-> "", agentId |-> "", workspaceId |-> ""]]

\* KafkaWorkspaceOrchestrator.handleMessage, with the bridge's listeners of
\* 'workspace_kafka_message' and 'error': gives the bridge state and the
\* events the orchestrator emitted
handleMessage(b, value) ==
  IF ~value.present
    THEN [b |-> b, emitted |-> <<>>]
    ELSE LET workspaceMessage == JSONparse(value.text)
         IN IF workspaceMessage.threw
              THEN [b |-> handleError(b, "kafka"),
                    emitted |-> <<[name |-> "error", message |-> workspaceMessage.value]>>]
              ELSE [b |-> Emit(b, "kafka_message", "kafka"),
                    emitted |-> <<[name |-> "workspace_kafka_message",
                                   message |-> workspaceMessage.value]>>]

\* the number of messages the consumer is handed
MaxConsumed == 3

\* the run loop of the consumer hands a message to handleMessage
KafkaConsumes(value) ==
  /\ sup.subscriptions > 0
  /\ nbcalls < MaxConsumed
  /\ LET r == handleMessage(Quiet(sup), value)
     IN /\ sup' = r.b
        /\ blast' = [NoBridgeCall EXCEPT !.op = "kafka.handleMessage", !.value = value,
                                         !.emitted = r.emitted,
                                         !.events = EventNames(r.b)]
  /\ nbcalls' = nbcalls + 1
  /\ UNCHANGED <<kv, sets, lists, call, last, held, ncalls, scen,
                 redisUp, kafkaUp, fallbackStorage, bheld, faults, inits>>

\* the data field of a stream entry, as the fields of the entry give it
StreamValues ==
  { [present |-> FALSE, text |-> ""],
    [present |-> TRUE, text |-> "{invalid-json}"],
    [present |-> TRUE, text |-> EnvelopeText] }

\* the number of entries one xreadgroup is answered with
MaxBatch == 2

StreamBatches == UNION { [1..n -> StreamValues] : n \in 1..MaxBatch }

\* messageData.data || '{}'
DataText(value) == IF value.present /\ value.text # "" THEN value.text ELSE "{}"

\* RedisWorkspaceOrchestrator.processStreamMessage, with the bridge's
\* listeners of 'workspace_message' and 'error': the envelope is parsed,
\* emitted and then acknowledged; whatever is thrown is emitted as 'error'
processStreamMessage(r, messageId, value) ==
  LET message == JSONparse(DataText(value))
      failed(b) == [b |-> handleError(b, "redis"),
                    emitted |-> Append(r.emitted, [name |-> "error", id |-> messageId])]
  IN IF message.threw
       THEN failed(r.b)
       ELSE LET b1 == Emit(r.b, "redis_message", "redis")
                e1 == Append(r.emitted, [name |-> "workspace_message", id |-> messageId])
            IN IF CommandsWork(b1)
                 THEN [b |-> [b1 EXCEPT !.pending = @ \ {messageId}], emitted |-> e1]
                 ELSE [b |-> handleError(b1, "redis"),
                       emitted |-> Append(e1, [name |-> "error", id |-> messageId])]

\* the loop of consumeStream over the entries read
RECURSIVE processStreamMessages(_, _, _, _)
processStreamMessages(r, firstId, batch, i) ==
  IF i > Len(batch)
    THEN r
    ELSE processStreamMessages(processStreamMessage(r, firstId + i, batch[i]),
                               firstId, batch, i + 1)

\* RedisWorkspaceOrchestrator.consumeStream: nothing when the orchestrator is
\* not connected; xreadgroup hands the entries over and leaves them pending
\* in the consumer group; a failure of xreadgroup is emitted as 'error'
consumeStream(b, streamName, batch) ==
  IF ~b.redisIsConnected
    THEN [b |-> b, emitted |-> <<>>]
    ELSE IF ~CommandsWork(b)
      THEN [b |-> handleError(b, "redis"), emitted |-> <<[name |-> "error", id |-> 0]>>]
      ELSE processStreamMessages(
             [b |-> [b EXCEPT !.delivered = @ + Len(batch),
                              !.pending = @ \cup ((b.delivered + 1)..(b.delivered + Len(batch)))],
              emitted |-> <<>>],
             b.delivered, batch, 1)

\* a polling interval of a stream fires and consumeStream runs to its end
RedisConsumes(streamName, batch) ==
  /\ sup.pollLoops[streamName] > 0
  /\ nbcalls < MaxConsumed
  /\ LET r == consumeStream(Quiet(sup), streamName, batch)
     IN /\ sup' = r.b
        /\ blast' = [NoBridgeCall EXCEPT !.op = "redis.consumeStream",
                                         !.stream = streamName,
                                         !.batch = batch, !.firstId = sup.delivered,
                                         !.emitted = r.emitted,
                                         !.entry = Entry(sup),
                                         !.events = EventNames(r.b)]
  /\ nbcalls' = nbcalls + 1
  /\ UNCHANGED <<kv, sets, lists, call, last, held, ncalls, scen,
                 redisUp, kafkaUp, fallbackStorage, bheld, faults, inits>>

\* the number of calls of the registry operations, and the latest time
MaxRegistryCalls == 3

MaxNow == 2

\* RedisWorkspaceOrchestrator.registerAgent is called and runs to its end
RedisRegisterAgent(a, agentInfo, now) ==
  /\ nbcalls < MaxRegistryCalls
  /\ now >= blast.now
  /\ LET r == registerAgent(Quiet(sup), a, agentInfo, now)
     IN /\ sup' = r.b
        /\ blast' = [NoBridgeCall EXCEPT
                       !.op = "redis.registerAgent", !.agent = a, !.raised = r.threw,
                       !.agentInfo = agentInfo, !.now = now,
                       !.registered = "registeredAt" \in DOMAIN sup.registry[a]]
  /\ nbcalls' = nbcalls + 1
  /\ UNCHANGED <<kv, sets, lists, call, last, held, ncalls, scen,
                 redisUp, kafkaUp, fallbackStorage, bheld, faults, inits>>

\* RedisWorkspaceOrchestrator.updateAgentStatus is called and runs to its end
RedisUpdateAgentStatus(a, ws, status, currentTask, now) ==
  /\ nbcalls < MaxRegistryCalls
  /\ now >= blast.now
  /\ LET r == updateAgentStatus(Quiet(sup), a, ws, status, currentTask, now)
     IN /\ sup' = r.b
        /\ blast' = [NoBridgeCall EXCEPT
                       !.op = "redis.updateAgentStatus", !.agent = a, !.raised = r.threw,
                       !.now = now]
  /\ nbcalls' = nbcalls + 1
  /\ UNCHANGED <<kv, sets, lists, call, last, held, ncalls, scen,
                 redisUp, kafkaUp, fallbackStorage, bheld, faults, inits>>

InitBridge ==
  /\ InitStore
  /\ InitBridgeState
  /\ redisUp \in BOOLEAN
  /\ kafkaUp \in BOOLEAN

Timers == [service : Services, attempts : 0..(ReconnectAttempts - 1)]

Connects == [service : Services, by : {"init", "timer"},
             attempts : 0..(ReconnectAttempts - 1), mode : {"fresh", "wait"}]

\* the bridge without its backends: every lock call is served by the fallback
\* lock manager
NextFallback ==
  \/ \E a \in Callers, f \in BridgeFiles, t \in LockTypes : BridgeRequestFileLock(a, f, t)
  \/ \E a \in Callers : \E id \in IdsOf(a) : BridgeReleaseFileLock(a, id)

SpecFallback == InitLocks /\ [][NextFallback]_vars

\* the lock ids of the fallback lock manager
FallbackLockIds ==
  FallbackKeys \cup { ReaderLockId(k, a) : k \in FallbackKeys, a \in Callers }

\* the bridge without its backends, where a caller may pass any lock id of a
\* key to release, its own or not
NextFallbackAny ==
  \/ \E a \in Callers, f \in BridgeFiles, t \in LockTypes : BridgeRequestFileLock(a, f, t)
  \/ \E a \in Callers, id \in FallbackLockIds : BridgeReleaseFileLock(a, id)

SpecFallbackAny == InitLocks /\ [][NextFallbackAny]_vars

\* the bounds of the bridge with both backends and lock calls; the callers
\* use the bridge once initialize() has returned
BridgeCalls == 2

Initialized == inits > 0 /\ sup.initializing = "no"

BridgeFaults == 1

BridgeInits == 1

NextBridge ==
  \/ /\ nbcalls < BridgeCalls /\ Initialized
     /\ \E a \in Callers, f \in BridgeFiles, t \in LockTypes : BridgeRequestFileLock(a, f, t)
  \/ /\ nbcalls < BridgeCalls /\ Initialized
     /\ \E a \in Callers : \E id \in IdsOf(a) : BridgeReleaseFileLock(a, id)
  \/ \E k \in LockKeys : BridgeRecordExpires(k)
  \/ (inits < BridgeInits /\ Initialize)
  \/ \E t \in Timers : TimerFires(t)
  \/ \E c \in Connects : RedisConnectSettles(c)
  \/ \E c \in Connects : KafkaConnectSettles(c)
  \/ (faults < BridgeFaults /\ RedisGoesDown)
  \/ RedisComesUp
  \/ (faults < BridgeFaults /\ RedisErrorEvent)
  \/ (faults < BridgeFaults /\ KafkaGoesDown)
  \/ KafkaComesUp
  \/ (faults < BridgeFaults /\ KafkaErrorEvent)

SpecBridge == InitBridge /\ [][NextBridge]_vars

\* health status and reconnection, without lock calls
NextSupervisor ==
  \/ Initialize
  \/ \E t \in Timers : TimerFires(t)
  \/ \E c \in Connects : RedisConnectSettles(c)
  \/ \E c \in Connects : KafkaConnectSettles(c)
  \/ RedisGoesDown
  \/ RedisComesUp
  \/ RedisErrorEvent
  \/ KafkaGoesDown
  \/ KafkaComesUp
  \/ KafkaErrorEvent

SpecSupervisor == InitBridge /\ [][NextSupervisor]_vars

\* the supervisor with shutdown(): initialize() is called once, the backends
\* come and go, and shutdown() is called at any moment
NextShutdown ==
  \/ (inits < BridgeInits /\ Initialize)
  \/ \E t \in Timers : TimerFires(t)
  \/ \E c \in Connects : RedisConnectSettles(c)
  \/ \E c \in Connects : KafkaConnectSettles(c)
  \/ (faults < BridgeFaults /\ RedisGoesDown)
  \/ RedisComesUp
  \/ (faults < BridgeFaults /\ KafkaGoesDown)
  \/ KafkaComesUp
  \/ Shutdown
  \/ KafkaDisconnectSettles

SpecShutdown == InitBridge /\ [][NextShutdown]_vars

\* a bridge built with any reconnectAttempts up to the tests' value, over
\* backends that are reachable or not and stay so: initialize() is called
\* once, and the connect() calls of initialize and of the reconnect timers
\* settle.  No error event reaches the bridge but those of connect() itself.
InitOutage ==
  /\ InitStore
  /\ \E n \in 1..ReconnectAttempts :
       sup = [BridgeConstructed EXCEPT !.config.reconnectAttempts = n]
  /\ fallbackStorage = [k \in FallbackKeys |-> NoFallbackLock]
  /\ bheld = {}
  /\ blast = NoBridgeCall
  /\ nbcalls = 0
  /\ faults = 0
  /\ inits = 0
  /\ redisUp \in BOOLEAN
  /\ kafkaUp \in BOOLEAN

NextOutage ==
  \/ (inits < BridgeInits /\ Initialize)
  \/ \E t \in Timers : TimerFires(t)
  \/ \E c \in Connects : RedisConnectSettles(c)
  \/ \E c \in Connects : KafkaConnectSettles(c)

SpecOutage == InitOutage /\ [][NextOutage]_vars

\* the bounds of the bridge with its data operations
ApiCalls == 2

ApiFaults == 2

\* the callers' inputs to the data operations
ApiAgent == "a1"

ApiWorkspace == "ws1"

ApiAgentInfo == [name |-> "n1", model |-> "m1", capabilities |-> <<"code">>]

ApiNow == 1

\* the bridge with all its public operations, called once initialize() has
\* returned, over backends that become unreachable without an event
NextApi ==
  \/ /\ nbcalls < ApiCalls /\ Initialized
     /\ \E f \in BridgeFiles, t \in {"read", "write"} : BridgeRequestFileLock(ApiAgent, f, t)
  \/ /\ nbcalls < ApiCalls /\ Initialized
     /\ \E id \in IdsOf(ApiAgent) : BridgeReleaseFileLock(ApiAgent, id)
  \/ /\ nbcalls < ApiCalls /\ Initialized
     /\ \E f \in BridgeFiles, e \in Edits : BridgePublishFileEdit(ApiAgent, f, e)
  \/ /\ nbcalls < ApiCalls /\ Initialized
     /\ BridgeRegisterAgent(ApiAgent, ApiWorkspace, ApiAgentInfo, ApiNow)
  \/ /\ nbcalls < ApiCalls /\ Initialized
     /\ BridgeUpdateAgentStatus(ApiAgent, ApiWorkspace, "busy", "", ApiNow)
  \/ (nbcalls < ApiCalls /\ Initialized /\ BridgePublishConsensusVote(ApiAgent, ApiWorkspace))
  \/ (nbcalls < ApiCalls /\ Initialized /\ BridgeLogConsensusDecision(ApiAgent, ApiWorkspace))
  \/ (nbcalls < ApiCalls /\ Initialized /\ BridgeSaveWorkspaceSnapshot(ApiAgent, ApiWorkspace))
  \/ (inits < BridgeInits /\ Initialize)
  \/ \E t \in Timers : TimerFires(t)
  \/ \E c \in Connects : RedisConnectSettles(c)
  \/ \E c \in Connects : KafkaConnectSettles(c)
  \/ (faults < ApiFaults /\ RedisConnectionLost)
  \/ (faults < ApiFaults /\ KafkaGoesDown)

SpecApi == InitBridge /\ [][NextApi]_vars

\* file edits published through the bridge while the durable store becomes
\* unreachable for a while and reachable again
NextBlip ==
  \/ /\ nbcalls < MaxBridgeCalls /\ Initialized
     /\ \E f \in BridgeFiles, e \in Edits : BridgePublishFileEdit(ApiAgent, f, e)
  \/ (inits < BridgeInits /\ Initialize)
  \/ \E t \in Timers : TimerFires(t)
  \/ \E c \in Connects : RedisConnectSettles(c)
  \/ \E c \in Connects : KafkaConnectSettles(c)
  \/ (faults < BridgeFaults /\ KafkaGoesDown)
  \/ KafkaComesUp

SpecBlip == InitBridge /\ [][NextBlip]_vars

\* the messages a log operation can have handed to the producer
Sends ==
  { [topic |-> LogTopic[op],
     message |-> [type |-> LogType[op], source |-> ApiAgent, workspaceId |-> ApiWorkspace,
                  payload |-> [operation |-> op], sequenceNumber |-> n]] :
      op \in LogOps, n \in 1..(MaxSends + 1) }

\* one durable-store orchestrator whose log operations are called
\* concurrently, over a durable store that becomes unreachable and reachable
NextKafka ==
  \/ \E op \in LogOps : KafkaLogStarts(op, ApiAgent, ApiWorkspace)
  \/ \E m \in Sends : KafkaSendSettles(m)
  \/ (faults < BridgeFaults /\ KafkaGoesDown)
  \/ KafkaComesUp

SpecKafka == InitBridge /\ [][NextKafka]_vars

\* the agentInfo the callers register with
AgentInfos ==
  { [name |-> "n1", model |-> "m1", capabilities |-> <<"code">>, workspaceId |-> ApiWorkspace],
    [name |-> "n1", model |-> "m1", capabilities |-> <<"code", "review">>,
     workspaceId |-> ApiWorkspace],
    [name |-> "n2", model |-> "m2", capabilities |-> <<>>, workspaceId |-> ApiWorkspace] }

\* the fast-store orchestrator once its connect() has returned
InitRegistry ==
  /\ InitStore
  /\ sup = redisConnected(BridgeConstructed)
  /\ fallbackStorage = [k \in FallbackKeys |-> NoFallbackLock]
  /\ bheld = {}
  /\ blast = NoBridgeCall
  /\ nbcalls = 0
  /\ faults = 0
  /\ inits = 0
  /\ redisUp = TRUE
  /\ kafkaUp = FALSE

\* the registry operations of one connected fast-store orchestrator, over a
\* fast store that becomes unreachable and reachable
NextRegistry ==
  \/ \E a \in Callers, i \in AgentInfos, now \in 1..MaxNow : RedisRegisterAgent(a, i, now)
  \/ \E a \in Callers, now \in 1..MaxNow :
       RedisUpdateAgentStatus(a, ApiWorkspace, "busy", "t1", now)
  \/ (faults < BridgeFaults /\ RedisConnectionLost)
  \/ RedisComesUp

SpecRegistry == InitRegistry /\ [][NextRegistry]_vars

\* the bridge is initialized and the consumer of the durable-store
\* orchestrator is handed messages
NextConsumer ==
  \/ (inits < BridgeInits /\ Initialize)
  \/ \E c \in Connects : RedisConnectSettles(c)
  \/ \E c \in Connects : KafkaConnectSettles(c)
  \/ \E t \in Timers : TimerFires(t)
  \/ \E v \in MessageValues : KafkaConsumes(v)

SpecConsumer == InitBridge /\ [][NextConsumer]_vars

\* the streams whose polling intervals are followed
PolledStreams == {FILE_LOCKS, FILE_EDITS}

\* the bridge is initialized and the consumers of both orchestrators are
\* handed entries, over a fast store that becomes unreachable without an event
NextStream ==
  \/ (inits < BridgeInits /\ Initialize)
  \/ \E c \in Connects : RedisConnectSettles(c)
  \/ \E c \in Connects : KafkaConnectSettles(c)
  \/ \E t \in Timers : TimerFires(t)
  \/ \E n \in PolledStreams, batch \in StreamBatches : RedisConsumes(n, batch)
  \/ \E v \in MessageValues : KafkaConsumes(v)
  \/ (faults < BridgeFaults /\ RedisConnectionLost)

SpecStream == InitBridge /\ [][NextStream]_vars

\* the consensus helper applied to the vote maps
NextConsensus == \E votes \in VoteMaps : CalculateConsensus(votes)

SpecConsensus == InitRegistry /\ [][NextConsensus]_vars

(***************************************************************************)
(* Properties of the fast-store lock protocol.                             *)
(***************************************************************************)
Exclusive(kind) == kind \in {"write", "exclusive"}

\* C1: in no state does one agent hold a write / exclusive lock on a key (a
\* lock id it was given, has not released, and whose record has not expired)
\* while another agent holds any lock on that key.
C1_MutualExclusion ==
  \A x, y \in held :
    (x.agent # y.agent /\ x.key = y.key) => ~Exclusive(x.kind)

\* C2: a release by an agent that holds no lock on the key returns false and
\* none of its commands changes the key's lock record or readers set.
C2_ReleaseAuthorization ==
  (last.op = "release" /\ ~last.holder)
    => (~last.released /\ ~last.touchedKv /\ ~last.touchedSet)

\* C3: when a release succeeds on a key whose waiters queue held, at the entry
\* of the release, the one entry of another agent's refused write request, the
\* release emits exactly one lock_retry, carrying that entry.
C3_WaiterWakeUp ==
  ( /\ last.op = "release" /\ last.released
    /\ Len(last.waiting) = 1
    /\ last.waiting[1].agentId # last.agent
    /\ last.waiting[1].lockType = "write" )
    => last.retried = <<last.waiting[1]>>

\* C4: a write / exclusive request made while some agent holds a read lock on
\* the key (from the entry of the call to its return) returns null, has
\* appended exactly one waiter entry, and has left the readers set unchanged.
C4_WriterExclusion ==
  (last.op = "request" /\ Exclusive(last.lockType) /\ last.rdHeld)
    => (last.result = Null /\ last.queued = 1 /\ ~last.touchedSet)

\* reader sharing with the lock record present until the last release,
\* whatever the time the readers take
C5_RecordUntilLastRelease ==
  /\ (last.op = "request" => last.result = ReaderLockId(Key1, last.agent))
  /\ (last.op = "release" => last.released)
  /\ (~RequestInFlight => sets[Key1] = scen.asked \ scen.releasing)
  /\ ( (~RequestInFlight /\ scen.asked \ scen.releasing # {})
         => kv[Key1].lockType = "read" )
  /\ ( (scen.asked # {} /\ scen.releasing = scen.asked
          /\ \A a \in Agents : call[a].op = "idle")
         => (kv[Key1] = NoLock /\ sets[Key1] = {}) )

\* C5: in the reader-sharing scenario every request returns the caller's
\* reader lock id and every release returns true; once the requests have
\* returned, the readers set is exactly the agents that asked and have not
\* begun to release; the lock record is a read record while one of them is
\* left, unless its time to live has run out, and record and readers set are
\* both absent when the last release has returned.
C5_ReaderSharing ==
  /\ (last.op = "request" => last.result = ReaderLockId(Key1, last.agent))
  /\ (last.op = "release" => last.released)
  /\ (~RequestInFlight => sets[Key1] = scen.asked \ scen.releasing)
  /\ ( (~RequestInFlight /\ scen.asked \ scen.releasing # {} /\ ~scen.expired)
         => kv[Key1].lockType = "read" )
  /\ ( (scen.asked # {} /\ scen.releasing = scen.asked
          /\ \A a \in Agents : call[a].op = "idle")
         => (kv[Key1] = NoLock /\ sets[Key1] = {}) )

\* all three agents have been given a read lock, two have released and the
\* third release has returned
C5_Witness ==
  /\ scen.asked = Agents /\ scen.releasing = Agents
  /\ \A a \in Agents : call[a].op = "idle"
  /\ last.op = "release" /\ last.released
  /\ ~scen.expired

(***************************************************************************)
(* Properties of the bridge.                                               *)
(***************************************************************************)
\* C6: in the fallback lock manager, while an agent holds a read lock it was
\* granted on a file and has not released, the record of the file's key is
\* present, and a write / exclusive request on the file returns null.
C6_FallbackReaderWriterExclusion ==
  /\ \A x \in bheld :
       (x.via = "fallback" /\ x.kind = "read")
         => fallbackStorage[FallbackKey(x.ws, x.path)] # NoFallbackLock
  /\ (blast.op = "request" /\ Exclusive(blast.lockType) /\ blast.readHeld)
       => blast.result = Null

\* C7: when the fast store grants a lock id to a bridge request and the write
\* to the durable log for it fails, the request returns that lock id, the fast
\* store is still marked connected, and the fallback lock manager is not used.
C7_PathIndependence ==
  (blast.op = "request" /\ blast.redisResult # Null /\ blast.kafkaFailed)
    => ( /\ blast.result = blast.redisResult
         /\ blast.redisConnectedAfter
         /\ ~blast.usedFallback )

\* C8: no two agents hold locks the bridge handed out on the same file when
\* one of the locks is a write / exclusive lock, whichever lock manager
\* granted them.
C8_BridgeMutualExclusion ==
  \A x, y \in bheld :
    (x.agent # y.agent /\ x.ws = y.ws /\ x.path = y.path) => ~Exclusive(x.kind)

\* C9: in every state, and at every event the bridge emits, overall is the
\* rollup of the two connected flags.
C9_HealthRollup ==
  /\ sup.overall = Rollup(sup.connected)
  /\ \A i \in 1..Len(sup.events) :
       sup.events[i].overall = Rollup(sup.events[i].connected)

\* C10: for each service, the reconnect timers have called connect() at most
\* ReconnectAttempts times since the attempt counter was last reset.
C10_ReconnectCap ==
  \A s \in Services : sup.connectCalls[s] <= ReconnectAttempts

\* the reconnect timers of a service that have not fired, and the connect()
\* calls of the service that have not settled
PendingTimers(s) == { t \in BagToSet(sup.timers) : t.service = s }

PendingConnects(s) == { c \in BagToSet(sup.connects) : c.service = s }

\* C11: when a backend is unreachable, so that every connect() made for it
\* fails, and the reconnect timers have made at least config.reconnectAttempts
\* connect() calls for it, and no timer and no connect() of the service is
\* pending any more (nothing further happens for the service unless the
\* backend sends another error event), then reconnect_failed has been emitted
\* for the service.
C11_TerminalReconnectFailure ==
  \A s \in Services :
    ( /\ ~(IF s = "redis" THEN redisUp ELSE kafkaUp)
      /\ sup.connectCalls[s] >= sup.config.reconnectAttempts
      /\ PendingTimers(s) = {} /\ PendingConnects(s) = {} )
    => sup.gaveUp[s]

\* the reconnect attempts of a service that are scheduled (a timer that has
\* not fired) or in flight (a connect() of a timer that has not settled)
AttemptsPending(s) ==
  LET inFlight == { c \in PendingConnects(s) : c.by = "timer" }
  IN BagCardinality([t \in PendingTimers(s) |-> CopiesIn(t, sup.timers)])
     + BagCardinality([c \in inFlight |-> CopiesIn(c, sup.connects)])

\* C12: in every state each service has at most one reconnect attempt
\* scheduled or in flight.
C12_ReconnectDeduplication == \A s \in Services : AttemptsPending(s) <= 1

\* C13: in a state reached by a step in which the connect() call of a
\* reconnect timer completed without error, the backend is marked connected,
\* its errorCount is 0 and its reconnect attempt counter is 0.
C13_RecoveryTransition ==
  \A s \in sup.settled :
    /\ sup.connected[s]
    /\ sup.errorCount[s] = 0
    /\ sup.reconnectAttempts[s] = 0

\* C14: a publishFileEdit call made when the durable store is reachable, its
\* orchestrator connected, and no reconnect timer or connect() of the durable
\* store is pending any more, appends an entry to the edit history topic.
C14_NoLostAuditEntries ==
  ( /\ blast.op = "publishFileEdit"
    /\ blast.entry.sendWorks
    /\ blast.entry.kafkaIsConnected
    /\ "kafka" \notin blast.entry.reconnecting )
  => Len(sup.topics[EDIT_HISTORY]) = blast.entry.editHistory + 1

\* C19: a read request of an agent that holds a read lock on the key (from
\* the entry of the call to its return) returns the agent's reader lock id,
\* leaves the readers set unchanged and appends no waiter entry.
C19_ReentrantReader ==
  (last.op = "request" /\ last.lockType = "read" /\ last.rdHolder)
    => /\ last.result = ReaderLockId(last.key, last.agent)
       /\ ~last.touchedSet
       /\ last.queued = 0

(***************************************************************************)
(* Properties of the bridge's public operations.                           *)
(***************************************************************************)
Emitted(name) == \E i \in 1..Len(blast.events) : blast.events[i] = name

\* the operations with a fast-store part and those with a durable-store part
\* that does not depend on the result of the fast-store part
RedisOps == {"request", "release", "publishFileEdit", "registerAgent",
             "updateAgentStatus", "publishConsensusVote"}

KafkaOps == {"publishFileEdit", "registerAgent", "logConsensusDecision",
             "saveWorkspaceSnapshot"}

\* C15: no call of a public operation of the bridge raises to its caller,
\* whatever fails; a call in which the fast store fails has emitted
\* redis_error, and one in which the durable store fails kafka_error.
C15_NeverRaises ==
  /\ ~blast.raised
  /\ ( /\ blast.op \in RedisOps
       /\ blast.entry.connected["redis"] /\ ~blast.entry.commandsWork )
     => Emitted("redis_error")
  /\ ( /\ blast.op \in KafkaOps
       /\ blast.entry.connected["kafka"] /\ ~blast.entry.sendWorks )
     => Emitted("kafka_error")

\* both stores fail in one call, which returns
C15_Witness ==
  /\ blast.op = "publishFileEdit"
  /\ blast.entry.connected["redis"] /\ ~blast.entry.commandsWork
  /\ blast.entry.connected["kafka"] /\ ~blast.entry.sendWorks
  /\ ~blast.raised
  /\ Emitted("redis_error") /\ Emitted("kafka_error")

\* the workspace_operation events emitted during the last bridge call
Operations == { i \in 1..Len(blast.events) : blast.events[i] = "workspace_operation" }

\* C17: every call of a public operation of the bridge emits exactly one
\* workspace_operation event, whichever lock manager or store served it.
C17_OneOperationEvent == blast.op # "none" => Cardinality(Operations) = 1

\* a publishFileEdit call that found the fast store connected and working
\* and the durable store marked connected and failing
PartitionCall ==
  /\ blast.op = "publishFileEdit"
  /\ blast.entry.connected["redis"] /\ blast.entry.commandsWork
  /\ blast.entry.connected["kafka"] /\ ~blast.entry.sendWorks

\* C18: a publishFileEdit call made with the fast store working and the
\* durable store failing returns, emits kafka_error, appends exactly one
\* entry with the edit's payload to the edits stream, and leaves overall
\* health degraded with the fast store marked connected.
C18_DurableStorePartition ==
  PartitionCall =>
    /\ ~blast.raised
    /\ Emitted("kafka_error")
    /\ Len(blast.after.appended) = 1
    /\ blast.after.appended[1].type = "file_edit"
    /\ blast.after.appended[1].payload = blast.editData
    /\ blast.after.overall = "degraded"
    /\ blast.after.connected["redis"]

C18_Witness == PartitionCall /\ ~blast.raised /\ Len(blast.after.appended) = 1

(***************************************************************************)
(* Properties of the durable-store orchestrator.                           *)
(***************************************************************************)
\* the sequence numbers of the messages on the topics
Published ==
  UNION { { sup.topics[t][i].sequenceNumber : i \in 1..Len(sup.topics[t]) } : t \in Topics }

InFlight == { m.message.sequenceNumber : m \in sup.sends }

\* C16: the messages are handed to the producer in strictly increasing order
\* of their sequence numbers, whatever their topics and however the log
\* operations interleave and fail, and the first message has number 1.
C16_MonotonicSequence ==
  /\ \A i, j \in 1..Len(sup.handed) :
       i < j => sup.handed[i].sequenceNumber < sup.handed[j].sequenceNumber
  /\ Len(sup.handed) > 0 => sup.handed[1].sequenceNumber = 1

\* three messages handed over on two topics at least, of which an earlier one
\* failed (a gap) and a later one is on its topic
C16_Witness ==
  /\ Len(sup.handed) >= 3
  /\ \E i, j \in 1..Len(sup.handed) :
       /\ i < j
       /\ sup.handed[i].topic # sup.handed[j].topic
       /\ sup.handed[i].sequenceNumber \notin Published \cup InFlight
       /\ sup.handed[j].sequenceNumber \in Published

\* C20: the consumer of the durable-store orchestrator, which is never
\* disconnected, subscribes to the topics and starts its run loop at most once.
C20_ConnectIdempotent == sup.subscriptions <= 1

WellFormed(value) ==
  /\ value.present
  /\ value.text \in DOMAIN JsonDocuments
  /\ JsonDocuments[value.text].kind = "object"
  /\ JsonDocuments[value.text].type # ""

\* C22: for a consumed message whose value is not the text of an envelope the
\* orchestrator emits 'error' and no 'workspace_kafka_message'; for a
\* well-formed one, whatever was consumed before, it emits
\* 'workspace_kafka_message' with the parsed envelope.
C22_ConsumerSurvivesMalformed ==
  blast.op = "kafka.handleMessage" =>
    IF WellFormed(blast.value)
      THEN blast.emitted = <<[name |-> "workspace_kafka_message",
                              message |-> JsonDocuments[blast.value.text]]>>
      ELSE /\ Len(blast.emitted) = 1
           /\ blast.emitted[1].name = "error"

(***************************************************************************)
(* Properties of the consensus helper.                                     *)
(***************************************************************************)
Count(v) == Cardinality({a \in DOMAIN blast.votes : blast.votes[a] = v})

Voted == Cardinality(DOMAIN blast.votes)

\* the quotient q equals num / den
Is(q, num, den) == q.num * den = num * q.den

\* C23: for a vote map of N votes the helper returns approved iff agree > N/2,
\* rejected iff disagree > N/2 and not approved, deadlock otherwise; the
\* confidence is agree/N, disagree/N or 0.5 respectively and lies in [0.5, 1].
C23_TallyLaw ==
  blast.op = "calculateConsensus" =>
    LET r == blast.consensus
        isApproved == 2 * Count("agree") > Voted
        isRejected == 2 * Count("disagree") > Voted /\ ~isApproved
    IN /\ r.result \in {"approved", "rejected", "deadlock"}
       /\ (r.result = "approved") <=> isApproved
       /\ (r.result = "rejected") <=> isRejected
       /\ (r.result = "deadlock") <=> (~isApproved /\ ~isRejected)
       /\ r.result = "approved" => Is(r.confidence, Count("agree"), Voted)
       /\ r.result = "rejected" => Is(r.confidence, Count("disagree"), Voted)
       /\ r.result = "deadlock" => Is(r.confidence, 1, 2)
       /\ r.confidence.den > 0
       /\ 2 * r.confidence.num >= r.confidence.den
       /\ r.confidence.num <= r.confidence.den

C23_Witness ==
  /\ blast.op = "calculateConsensus"
  /\ Voted = 3 /\ Count("disagree") = 2
  /\ blast.consensus.result = "rejected"

\* the vote map of the consensus scenario
ScenarioVotes ==
  ("a1" :> "agree") @@ ("a2" :> "agree") @@ ("a3" :> "disagree") @@ ("a4" :> "abstain")

\* C24: for the votes a1 agree, a2 agree, a3 disagree, a4 abstain the helper
\* returns approved with confidence 0.5.
C24_ConsensusScenario ==
  (blast.op = "calculateConsensus" /\ blast.votes = ScenarioVotes) =>
    /\ blast.consensus.result = "approved"
    /\ Is(blast.consensus.confidence, 1, 2)

\* C24, amended: for these votes the helper returns deadlock with confidence
\* 0.5, two of four votes not being more than half.
C24_ConsensusScenarioDeadlock ==
  (blast.op = "calculateConsensus" /\ blast.votes = ScenarioVotes) =>
    /\ blast.consensus.result = "deadlock"
    /\ Is(blast.consensus.confidence, 1, 2)

C24_Witness == blast.op = "calculateConsensus" /\ blast.votes = ScenarioVotes

(***************************************************************************)
(* Properties of the waiters queues of the fast store.                     *)
(***************************************************************************)
\* C25: a release emits at most one lock_retry, and a waiters queue changes
\* only by a request entering at its head or by a successful release taking
\* the entry at its tail, the oldest one, which is the entry the release's
\* lock_retry carries: lock_retry events carry the entries of a queue in the
\* order in which they were enqueued.
C25_FifoOnePerRelease ==
  [][ /\ last'.op = "release" => Len(last'.retried) <= 1
      /\ \A q \in QueueKeys :
            lists'[q] # lists[q] =>
              \/ /\ Len(lists'[q]) = Len(lists[q]) + 1
                 /\ Tail(lists'[q]) = lists[q]
                 /\ last'.op = "request" /\ last'.result = Null
                 /\ Head(lists'[q]).agentId = last'.agent
              \/ /\ last'.op = "release" /\ last'.released
                 /\ Len(last'.retried) = 1
                 /\ lists[q] = Append(lists'[q], last'.retried[1]) ]_vars

C25_Witness ==
  /\ last.op = "release" /\ last.released
  /\ Len(last.retried) = 1
  /\ LET q == ProcessQueueKey(last.key)
     IN /\ lists[q] # <<>>
        /\ \A i \in 1..Len(lists[q]) : lists[q][i] # last.retried[1]

\* C26: a request that returns null has pushed one waiter entry for the
\* caller on the queue of the key.
C26_ContentionEnqueues ==
  (last.op = "request" /\ last.result = Null) => last.queued = 1

\* C27: a request is granted on a key without a lock record whose waiters
\* queue is not empty only to the agent of the oldest entry of the queue.
C27_NoOvertaking ==
  [][ ( /\ last' # last
        /\ last'.op = "request" /\ last'.result # Null
        /\ kv[last'.key] = NoLock
        /\ lists[QueueKey(last'.ws, last'.path)] # <<>> )
      => LET waiters == lists[QueueKey(last'.ws, last'.path)]
         IN waiters[Len(waiters)].agentId = last'.agent ]_vars

\* the agent has an entry on the waiters queue of the second pair
Queued(w) ==
  \E i \in 1..Len(lists[QueueKey(File2.ws, File2.path)]) :
    lists[QueueKey(File2.ws, File2.path)][i].agentId = w

\* C28: a waiter that retries on lock_retry and is queued on a key without a
\* lock record, behind a waiter that has abandoned its request or not,
\* eventually holds the lock.
C28_WaiterProgress ==
  \A w \in Waiters \ {Abandoner} :
    (Queued(w) /\ kv[Key2] = NoLock) ~> (\E x \in held : x.agent = w /\ x.key = Key2)

\* C29: whenever no call is in progress, the readers set of a key is not
\* empty if and only if the lock record at the key is of type read.
C29_ReadersRecordConsistency ==
  (\A a \in Agents : call[a].op = "idle") =>
    \A k \in LockKeys : (sets[k] # {}) <=> (kv[k].lockType = "read")

(***************************************************************************)
(* Properties of the bridge's health events.                               *)
(***************************************************************************)
\* C30: a step of the bridge emits health_changed exactly when it leaves an
\* overall health different from the one it found.
C30_HealthChangedOnChange ==
  [][ (\E i \in 1..Len(sup'.events) : sup'.events[i].name = "health_changed")
        <=> (sup'.overall # sup.overall) ]_vars

\* the event of the given name is emitted for the service in the step
EmittedFor(b, name, service) ==
  \E i \in 1..Len(b.events) : b.events[i].name = name /\ b.events[i].service = service

\* C31: a step in which the bridge handles a 'disconnected' event of a backend
\* leaves the backend marked disconnected, its error count one higher, and a
\* reconnect attempt started (or given up with reconnect_failed).
C31_DisconnectHandledAsError ==
  [][ \A s \in Services :
        (\/ EmittedFor(sup', "redis_disconnected", s)
         \/ EmittedFor(sup', "kafka_disconnected", s))
        => /\ ~sup'.connected[s]
           /\ sup'.errorCount[s] = sup.errorCount[s] + 1
           /\ \/ s \in sup'.reconnectInProgress
              \/ EmittedFor(sup', "reconnect_failed", s) ]_vars

\* C32: once reconnect_failed has been emitted for a service, no step emits
\* it again for that service unless the service's attempt counter has been
\* reset in between.
C32_ReconnectFailedOnce ==
  [][ \A s \in Services :
        (sup.gaveUp[s] /\ sup'.reconnectAttempts[s] >= sup.reconnectAttempts[s])
        => ~EmittedFor(sup', "reconnect_failed", s) ]_vars

\* the bridge's call of this step is a release of a lock id that the fallback
\* lock manager has granted to the caller and the caller has not released
ReleasesFallbackHold ==
  /\ nbcalls' = nbcalls + 1
  /\ blast'.op = "release"
  /\ \E x \in bheld : /\ x.via = "fallback"
                      /\ x.agent = blast'.agent /\ x.lockId = blast'.lockId

\* C33: a release of a lock id granted by the fallback lock manager, called by
\* its holder, returns true and removes the hold, whatever the state of the
\* fast store at the time of the release.
C33_FallbackLockReleasable ==
  [][ ReleasesFallbackHold
      => /\ blast'.released
         /\ ~\E x \in bheld' : /\ x.via = "fallback"
                               /\ x.agent = blast'.agent /\ x.lockId = blast'.lockId ]_vars

\* the agent is in the readers list of the fallback lock
IsFallbackReader(lock, a) == \E i \in 1..Len(lock.readers) : lock.readers[i] = a

\* C34: a release with a reader-form lock id served by the fallback lock
\* manager returns true only if the caller was in the readers list of the
\* key; called by another agent it returns false and leaves the map as it was.
C34_FallbackReaderReleaseAuthorized ==
  [][ ( /\ nbcalls' = nbcalls + 1
        /\ blast'.op = "release" /\ blast'.usedFallback
        /\ IsReaderForm(blast'.lockId) )
      => LET lock == GetFallback(fallbackStorage, BaseKey(blast'.lockId))
             wasReader == IsFallbackReader(lock, blast'.agent)
         IN /\ blast'.released => wasReader
            /\ ~wasReader => fallbackStorage' = fallbackStorage ]_vars

(***************************************************************************)
(* Properties of the lock events and of the orchestrators' consumers.      *)
(***************************************************************************)
\* C35: a request that returns a lock id has published one lock_acquired
\* envelope and a request that returns null none; a release that returns true
\* has published one lock_released envelope whose workspaceId and filePath
\* are those of the released lock.
C35_LockEventsIdentifyLock ==
  /\ (last.op = "request" /\ last.result # Null)
       => (Len(last.pub) = 1 /\ last.pub[1].eventType = "lock_acquired")
  /\ (last.op = "request" /\ last.result = Null) => last.pub = <<>>
  /\ (last.op = "release" /\ last.released)
       => /\ Len(last.pub) = 1
          /\ last.pub[1].eventType = "lock_released"
          /\ last.pub[1].workspaceId = FileOf(BaseKey(last.lockId)).ws
          /\ last.pub[1].filePath = FileOf(BaseKey(last.lockId)).path

\* the orchestrator emitted the event for the entry in the call
EmittedEntry(name, id) ==
  \E j \in 1..Len(blast.emitted) : blast.emitted[j] = [name |-> name, id |-> id]

\* the data of the entry does not parse
Malformed(value) == JSONparse(DataText(value)).threw

\* C36: when the stream consumer has read entries from a reachable fast store,
\* an entry whose envelope cannot be parsed is reported as an error and is
\* acknowledged, and every entry that parses is dispatched and acknowledged,
\* also after a malformed one.
C36_MalformedEntryAcknowledged ==
  ( /\ blast.op = "redis.consumeStream"
    /\ blast.batch # <<>>
    /\ blast.entry.commandsWork /\ sup.redisIsConnected )
  => \A i \in 1..Len(blast.batch) :
       /\ (blast.firstId + i) \notin sup.pending
       /\ IF Malformed(blast.batch[i])
            THEN EmittedEntry("error", blast.firstId + i)
            ELSE EmittedEntry("workspace_message", blast.firstId + i)

\* the step is a consumer's handling of what it was handed, over stores whose
\* commands work, and an entry in it did not parse
MessageLevelError ==
  /\ nbcalls' = nbcalls + 1
  /\ \/ /\ blast'.op = "kafka.handleMessage"
        /\ blast'.value.present /\ JSONparse(blast'.value.text).threw
     \/ /\ blast'.op = "redis.consumeStream"
        /\ blast'.entry.commandsWork
        /\ \E i \in 1..Len(blast'.batch) : Malformed(blast'.batch[i])

\* C39: a step in which a consumed message fails to parse leaves the bridge's
\* connected flags and overall health as they were and starts no reconnect
\* attempt.
C39_MessageErrorKeepsHealth ==
  [][ MessageLevelError
      => /\ sup'.connected = sup.connected
         /\ sup'.overall = sup.overall
         /\ sup'.timers = sup.timers
         /\ sup'.reconnectAttempts = sup.reconnectAttempts ]_vars

\* C37: the fast-store orchestrator has at most one polling interval for each
\* stream and at most one heartbeat interval that has not been cleared, and
\* none while it is disconnected.
C37_OneLoopPerStream ==
  /\ sup.heartbeats <= 1
  /\ \A n \in ConsumedStreams : sup.pollLoops[n] <= 1
  /\ ~sup.redisIsConnected
       => (sup.heartbeats = 0 /\ \A n \in ConsumedStreams : sup.pollLoops[n] = 0)

\* C38: the del of the lock key in a release with a reader-form lock id
\* removes no lock record of type write or exclusive that another agent
\* has installed.
C38_ReaderReleaseSparesWriter ==
  [][ \A a \in Agents :
        ( /\ call[a].op = "release" /\ IsReaderForm(call[a].lockId)
          /\ call[a].pc = "del_key" /\ call'[a].pc # "del_key"
          /\ kv[call[a].key] # NoLock /\ kv'[call[a].key] = NoLock )
        => (kv[call[a].key].lockType = "read" \/ kv[call[a].key].agentId = a) ]_vars

(***************************************************************************)
(* Properties of shutdown.                                                 *)
(***************************************************************************)
\* C40: once shutdown() has returned, no reconnect timer of the bridge calls
\* connect() of a backend.
C40_ShutdownIsFinal ==
  [][ sup.shutdown = "done"
      => \A s \in Services : sup'.connectCalls[s] <= sup.connectCalls[s] ]_vars

====
